---- MODULE Spec2Model ----
(***************************************************************************)
(* Model of the contract-verification route of kite-app                    *)
(* (src/unnamed/part_000: OPTIONS / POST / GET of /api/verify-contract)    *)
(* together with the caller side that invokes it                           *)
(* (src/src/app/[id]/page.tsx, handleVerifyContract).                      *)
(*                                                                         *)
(* One POST request is followed from the parsing of its body to the        *)
(* finally block; pc is the position of the handler between two awaits.    *)
(***************************************************************************)
EXTENDS Integers, Naturals, Sequences, FiniteSets, TLC

\* ------------------------------------------------------------------------
\* Program constants

\* const maxAttempts = 30 (POST)
maxAttempts == 30

\* ------------------------------------------------------------------------
\* Bounds of the model

\* number of standalone GET /verify-contract?guid= requests that are followed
MaxGets == 1

\* largest number of functions in one stored transaction
MaxFunctions == 2

\* ------------------------------------------------------------------------
\* Values

\* JavaScript null / undefined
Null == [kind |-> "null", status |-> "", result |-> ""]

\* the parsed JSON object of an explorer reply
Obj(s, r) == [kind |-> "json", status |-> s, result |-> r]

\* result texts the status endpoint answers with
StatusResultTexts ==
  { "Pending in queue", "Already Verified", "Pass - Verified",
    "Fail - Unable to verify", "" }

\* what a call of the status endpoint can produce: the fetch throws, the body
\* is not JSON, the body is the JSON literal null, or a JSON object
StatusReplies ==
  { [kind |-> k, status |-> "", result |-> ""] :
       k \in {"neterr", "badjson", "jsonnull"} }
  \cup { Obj(s, r) : s \in {"0", "1"}, r \in StatusResultTexts }

\* what the submission endpoint can produce
SubmitResultTexts == { "guid-1", "already verified", "" }

SubmitReplies ==
  { [kind |-> k, status |-> "", result |-> ""] :
       k \in {"neterr", "nonjson", "jsonnull"} }
  \cup { Obj(s, r) : s \in {"0", "1"}, r \in SubmitResultTexts }

\* request bodies: unparsable, or {contractId, contractAddress}
RequestBodies ==
  { [ok |-> FALSE, contractId |-> "", contractAddress |-> ""] }
  \cup { [ok |-> TRUE, contractId |-> i, contractAddress |-> a] :
           i \in {"", "c1"}, a \in {"", "0xA"} }

\* outcome of the storage lookup: the driver throws, no record, a record
StorageReplies ==
  { [kind |-> "throws", source |-> "", sourcePath |-> ""],
    [kind |-> "none", source |-> "", sourcePath |-> ""],
    [kind |-> "doc", source |-> "", sourcePath |-> ""],
    [kind |-> "doc", source |-> "contract C {}", sourcePath |-> ""],
    [kind |-> "doc", source |-> "", sourcePath |-> "src/C.sol"] }

\* finalStatus of the poll loop: null or {status, message, result}
NoStatus == [status |-> "null", message |-> "", result |-> ""]

\* no response has been produced yet
NoResponse ==
  [http |-> 0, success |-> FALSE, message |-> "", guid |-> "",
   status |-> NoStatus, error |-> ""]

\* no GET response has been produced yet
NoGetResponse ==
  [http |-> 0, success |-> FALSE, message |-> "", status |-> Null]

VARIABLES
  pc,             \* position of the POST handler
  client,         \* module-level MongoClient: "closed" or "open"
  contract,       \* the record found by findOne
  verificationResult, \* const verificationResult (null before it is set)
  guid,           \* tracking token of the submission
  attempts,       \* let attempts
  finalStatus,    \* let finalStatus
  statusResult,   \* const statusResult of the last loop iteration
  response,       \* the response of the POST request
  callerPresent,  \* the page that issued the fetch is still mounted
  submissions,    \* submission requests sent to the explorer
  queries,        \* status queries sent by the poll loop
  waits,          \* 10 s waits completed by the poll loop
  pendings,       \* status queries of the loop answered 'Pending in queue'
  errors,         \* status queries of the loop that returned null
  termAt,         \* index of the first query with a terminal observation
  termKind,       \* the state that observation stands for
  gets,           \* GET requests served
  getResponse,    \* the response of the last GET request
  getReply        \* what the explorer answered to the last GET request

\* the transaction page (src/src/app/tx/[id]/page.tsx)
VARIABLES
  txPc,            \* position of handleExecuteTransaction
  functions,       \* transactionData.functions
  paramValues,     \* paramValues: key <<funcIndex, paramIndex>> -> text
  funcIndex,       \* let funcIndex of the build loop
  calls,           \* const calls
  sends,           \* invocations of sendCalls
  sentCalls,       \* the batch handed to sendCalls
  executionStatus, \* executionStatus
  isExecuting,     \* isExecuting
  txError,         \* error
  sawPending,      \* executionStatus was 'pending' in this execution
  receipts         \* outcome of waitForCallsStatus

txVars == << txPc, functions, paramValues, funcIndex, calls, sends,
             sentCalls, executionStatus, isExecuting, txError, sawPending,
             receipts >>

\* one call of the two coercers on the same input
VARIABLES
  cvPc,            \* "input", then "done" when both coercers have run
  cvValue,         \* the text entered
  cvType,          \* the declared type name
  cvTx,            \* result of convertParamValue (transaction page)
  cvDeploy         \* result of the conversion in finalArgs (deploy page)

coerceVars == << cvPc, cvValue, cvType, cvTx, cvDeploy >>

\* the deploy page (React state of ContractPage) and the verification
\* request it sends
VARIABLES
  dpPc,                \* "form", "requested" (POST sent), "submitted"
  constructorParams,   \* the types of the constructor's inputs
  useDynamicArgs,      \* form inputs (TRUE) or the JSON text (FALSE)
  constructorArgs,     \* texts of the form inputs arg_0, arg_1, ...
  argsText,            \* the JSON text
  contractAddress,     \* address of the deployed contract, "" before
  dpError,             \* error of handleDeploy
  verificationMessage, \* verificationMessage
  verifyBody,          \* constructorArgs of the body POSTed to the route
  constructorArguments, \* field of the payload sent to the explorer
  isDeploying,         \* isDeploying
  deploys,             \* calls of walletClient.deployContract
  deployArgs,          \* args of the last call of deployContract
  verificationStatus,  \* verificationStatus
  verificationGuid,    \* verificationGuid
  verifyAddress,       \* contractAddress of the last body POSTed
  abiShape             \* parsedAbi is an "array" of fragments or "notArray"

\* what the user types and chooses
formVars == << constructorParams, useDynamicArgs, constructorArgs, argsText,
              abiShape >>

\* outcome of the verification shown on the page
shownVars == << verificationStatus, verificationGuid, verificationMessage >>

deployVars == << dpPc, formVars, contractAddress, dpError, shownVars,
                 verifyBody, constructorArguments, isDeploying, deploys,
                 deployArgs, verifyAddress >>

\* normalisation of an uploaded artifact (bytecode-utils)
VARIABLES
  nzPc,             \* "input", then "done"
  rawContractData,  \* the artifact: its bytecode and deployedBytecode fields
  normalizedData    \* normalizeContractData(rawContractData)

normVars == << nzPc, rawContractData, normalizedData >>

\* what the POST handler of the verification route was given: the request
\* body and the answer of the storage lookup
VARIABLES
  reqBody,          \* const body = await request.json()
  lookup            \* "notAsked", then the kind of answer findOne gave

reqVars == << reqBody, lookup >>

\* requests on a storage route ([id]/route.ts), which share the route
\* module's MongoClient
VARIABLES
  routeName,        \* the route module: "contracts" or "transactions"
  routeClient,      \* const client = new MongoClient(uri): "closed", "open"
  store,            \* the records of the collections of the database
  rq                \* the requests in flight: method, id, position, answer

routeVars == << routeName, routeClient, store, rq >>

\* the variables of the components added last
lateVars == << normVars, reqVars, routeVars >>

\* the pages and the storage routes, apart from the request of the POST
postOthers == << txVars, coerceVars, deployVars, normVars, routeVars >>

\* the variables of the other components
notDeployVars == << pc, client, contract, verificationResult, guid, attempts,
                    finalStatus, statusResult, response, callerPresent,
                    submissions, queries, waits, pendings, errors, termAt,
                    termKind, gets, getResponse, getReply, txVars,
                    coerceVars, lateVars >>

\* the variables of the pages, which the verification route never touches
pageVars == << txVars, coerceVars, deployVars, lateVars >>

verifyVars == << pc, client, contract, verificationResult, guid, attempts,
                 finalStatus, statusResult, response, callerPresent,
                 submissions, queries, waits, pendings, errors, termAt,
                 termKind, gets, getResponse, getReply >>

vars == << verifyVars, pageVars >>

postVars == << pc, client, contract, verificationResult, guid, attempts,
               finalStatus, statusResult, response, submissions, queries,
               waits, pendings, errors, termAt, termKind >>

VerifyInit ==
  /\ pc = "body"
  /\ client = "closed"
  /\ contract = [kind |-> "none", source |-> "", sourcePath |-> ""]
  /\ verificationResult = Null
  /\ guid = ""
  /\ attempts = 0
  /\ finalStatus = NoStatus
  /\ statusResult = Null
  /\ response = NoResponse
  /\ callerPresent = TRUE
  /\ submissions = 0
  /\ queries = 0
  /\ waits = 0
  /\ pendings = 0
  /\ errors = 0
  /\ termAt = 0
  /\ termKind = "none"
  /\ gets = 0
  /\ getResponse = NoGetResponse
  /\ getReply = Null

\* the transaction page with nothing loaded
TxIdle ==
  /\ txPc = "unloaded"
  /\ functions = << >>
  /\ paramValues = << >>
  /\ funcIndex = 0
  /\ calls = << >>
  /\ sends = 0
  /\ sentCalls = << >>
  /\ executionStatus = ""
  /\ isExecuting = FALSE
  /\ txError = ""
  /\ sawPending = FALSE
  /\ receipts = "none"

\* no coercion under way
CoerceIdle ==
  /\ cvPc = "off"
  /\ cvValue = << >>
  /\ cvType = << >>
  /\ cvTx = [tag |-> "unset", s |-> << >>, b |-> FALSE, n |-> 0]
  /\ cvDeploy = [tag |-> "unset", s |-> << >>, b |-> FALSE, n |-> 0]

\* the body field before any request was sent
NoBody == [absent |-> TRUE, text |-> << >>]

\* error of handleDeploy: none
NoError == [text |-> "", expected |-> 0, received |-> 0]

\* no call of deployContract yet
NoDeployArgs == [called |-> FALSE, args |-> << >>]

\* the deploy page is not open
DeployIdle ==
  /\ dpPc = "off"
  /\ constructorParams = << >>
  /\ useDynamicArgs = TRUE
  /\ constructorArgs = << >>
  /\ argsText = << "[", "]" >>
  /\ contractAddress = ""
  /\ dpError = NoError
  /\ verificationMessage = ""
  /\ verifyBody = NoBody
  /\ constructorArguments = << >>
  /\ isDeploying = FALSE
  /\ deploys = 0
  /\ deployArgs = NoDeployArgs
  /\ verificationStatus = ""
  /\ verificationGuid = ""
  /\ verifyAddress = ""
  /\ abiShape = "array"

\* a field of an artifact that is not there
AbsentField == [kind |-> "absent", s |-> "", hasObject |-> FALSE,
                object |-> ""]

\* no artifact is being normalised
NormIdle ==
  /\ nzPc = "off"
  /\ rawContractData = [bytecode |-> AbsentField,
                        deployedBytecode |-> AbsentField]
  /\ normalizedData = [bytecode |-> AbsentField,
                       deployedBytecode |-> AbsentField]

\* nothing has been parsed or looked up
NoRequestBody == [ok |-> FALSE, contractId |-> "", contractAddress |-> ""]

ReqIdle ==
  /\ reqBody = NoRequestBody
  /\ lookup = "notAsked"

\* no request on a storage route
RouteIdle ==
  /\ routeName = "none"
  /\ routeClient = "closed"
  /\ store = [contracts |-> {}, transactions |-> {}]
  /\ rq = << >>

\* the components added last are idle
LateIdle == NormIdle /\ ReqIdle /\ RouteIdle

Init ==
  /\ VerifyInit
  /\ TxIdle
  /\ CoerceIdle
  /\ DeployIdle
  /\ LateIdle

\* ------------------------------------------------------------------------
\* Helpers of the route

\* JavaScript truthiness of a string
Truthy(s) == s # ""

\* a || b on strings
OrElse(a, b) == IF Truthy(a) THEN a ELSE b

\* checkVerificationStatus(guid, chainId): the parsed reply, or null when the
\* fetch or response.json() throws (a body that is the literal null parses
\* to null as well)
checkVerificationStatus(reply) ==
  IF reply.kind \in {"neterr", "badjson"} THEN Null
  ELSE IF reply.kind = "jsonnull" THEN Null
  ELSE reply

\* submitVerification(contractData, contractAddress, constructorArgs):
\* either throws with a message or returns the parsed reply
submitVerification(contractData, reply) ==
  LET sourceCode == OrElse(contractData.source,
                           OrElse(contractData.sourcePath, ""))
  IN  IF ~Truthy(sourceCode)
        THEN [threw |-> TRUE, sent |-> FALSE,
              error |-> "No source code found in contract data",
              result |-> Null]
      ELSE IF reply.kind = "neterr"
        THEN [threw |-> TRUE, sent |-> TRUE, error |-> "fetch failed",
              result |-> Null]
      ELSE IF reply.kind = "nonjson"
        THEN [threw |-> TRUE, sent |-> TRUE,
              error |-> "Non-JSON response received: <text>",
              result |-> Null]
      ELSE IF reply.kind = "jsonnull"
        THEN [threw |-> FALSE, sent |-> TRUE, error |-> "", result |-> Null]
      ELSE [threw |-> FALSE, sent |-> TRUE, error |-> "", result |-> reply]

\* SubmissionAccepted with the test written as if (verificationResult.status)
SubmissionAccepted_Truthy(vr) == Truthy(vr.status)

\* verificationResult.status === "1"
SubmissionAccepted(vr) == vr.status = "1"

\* LoopCond with an off-by-one bound
LoopCond_Inclusive(a) == a <= maxAttempts

\* LoopCond with the comparison turned round
LoopCond_Flipped(a) == a > maxAttempts

\* while (attempts < maxAttempts)
LoopCond(a) == a < maxAttempts

\* Classify with the 'Pending in queue' test ahead of the status test
Classify_PendingFirst(fs, sr) ==
  IF sr # Null /\ sr.result = "Pending in queue"
    THEN [final |-> [status |-> "pending",
                     message |-> "Verification pending in queue",
                     result |-> ""],
          brk |-> FALSE]
  ELSE IF sr # Null /\ sr.status = "1"
    THEN [final |-> [status |-> "verified",
                     message |-> "Contract verified successfully",
                     result |-> sr.result],
          brk |-> TRUE]
  ELSE IF sr # Null /\ sr.result = "Already Verified"
    THEN [final |-> [status |-> "already_verified",
                     message |-> "Contract is already verified",
                     result |-> ""],
          brk |-> TRUE]
  ELSE IF sr # Null
    THEN [final |-> [status |-> "failed",
                     message |-> "Verification failed",
                     result |-> sr.result],
          brk |-> TRUE]
  ELSE [final |-> fs, brk |-> FALSE]

\* Classify with the break of the last branch left out
Classify_FailedContinues(fs, sr) ==
  IF sr # Null /\ sr.status = "1"
    THEN [final |-> [status |-> "verified",
                     message |-> "Contract verified successfully",
                     result |-> sr.result],
          brk |-> TRUE]
  ELSE IF sr # Null /\ sr.result = "Pending in queue"
    THEN [final |-> [status |-> "pending",
                     message |-> "Verification pending in queue",
                     result |-> ""],
          brk |-> FALSE]
  ELSE IF sr # Null /\ sr.result = "Already Verified"
    THEN [final |-> [status |-> "already_verified",
                     message |-> "Contract is already verified",
                     result |-> ""],
          brk |-> TRUE]
  ELSE IF sr # Null
    THEN [final |-> [status |-> "failed",
                     message |-> "Verification failed",
                     result |-> sr.result],
          brk |-> FALSE]
  ELSE [final |-> fs, brk |-> FALSE]

\* Classify with a failed query (null) resetting finalStatus
Classify_ErrorForgets(fs, sr) ==
  IF sr # Null /\ sr.status = "1"
    THEN [final |-> [status |-> "verified",
                     message |-> "Contract verified successfully",
                     result |-> sr.result],
          brk |-> TRUE]
  ELSE IF sr # Null /\ sr.result = "Pending in queue"
    THEN [final |-> [status |-> "pending",
                     message |-> "Verification pending in queue",
                     result |-> ""],
          brk |-> FALSE]
  ELSE IF sr # Null /\ sr.result = "Already Verified"
    THEN [final |-> [status |-> "already_verified",
                     message |-> "Contract is already verified",
                     result |-> ""],
          brk |-> TRUE]
  ELSE IF sr # Null
    THEN [final |-> [status |-> "failed",
                     message |-> "Verification failed",
                     result |-> sr.result],
          brk |-> TRUE]
  ELSE [final |-> NoStatus, brk |-> FALSE]

\* the if / else-if chain of the loop body: the new finalStatus and whether
\* the branch ends with break
Classify(fs, sr) ==
  IF sr # Null /\ sr.status = "1"
    THEN [final |-> [status |-> "verified",
                     message |-> "Contract verified successfully",
                     result |-> sr.result],
          brk |-> TRUE]
  ELSE IF sr # Null /\ sr.result = "Pending in queue"
    THEN [final |-> [status |-> "pending",
                     message |-> "Verification pending in queue",
                     result |-> ""],
          brk |-> FALSE]
  ELSE IF sr # Null /\ sr.result = "Already Verified"
    THEN [final |-> [status |-> "already_verified",
                     message |-> "Contract is already verified",
                     result |-> ""],
          brk |-> TRUE]
  ELSE IF sr # Null
    THEN [final |-> [status |-> "failed",
                     message |-> "Verification failed",
                     result |-> sr.result],
          brk |-> TRUE]
  ELSE [final |-> fs, brk |-> FALSE]

\* TimeoutCond with a strict comparison
TimeoutCond_Strict(a, fs) == a > maxAttempts /\ fs = NoStatus

\* if (attempts >= maxAttempts && !finalStatus)
TimeoutCond(a, fs) == a >= maxAttempts /\ fs = NoStatus

TimeoutStatus ==
  [status |-> "timeout",
   message |-> "Verification status check completed after maximum attempts",
   result |-> ""]

\* NextResponse.json({success: false, message, error?}, {status})
ErrorResponse(code, msg, err) ==
  [http |-> code, success |-> FALSE, message |-> msg, guid |-> "",
   status |-> NoStatus, error |-> err]

\* the catch block of POST
Caught(err) == ErrorResponse(500, "Failed to verify contract", err)

\* NextResponse.json({success: true, message, guid, status: finalStatus})
CompletedResponse(g, fs) ==
  [http |-> 200, success |-> TRUE,
   message |-> "Verification process completed", guid |-> g,
   status |-> fs, error |-> ""]

\* what an observer of the service reads from one status reply (kept apart
\* from the handler's own if / else-if chain; it feeds the counters pendings,
\* errors, termAt and termKind only)
ObservedKind(sr) ==
  IF sr = Null THEN "error"
  ELSE IF sr.status = "1" THEN "verified"
  ELSE IF sr.result = "Pending in queue" THEN "pending"
  ELSE IF sr.result = "Already Verified" THEN "already_verified"
  ELSE "failed"

TerminalKinds == {"verified", "already_verified", "failed"}

\* ------------------------------------------------------------------------
\* POST /api/verify-contract

\* request.json(), destructuring and the required-field check
ParseBody ==
  /\ pc = "body"
  /\ \E body \in RequestBodies :
       /\ reqBody' = body
       /\ IF ~body.ok
            THEN /\ response' = Caught("Unexpected end of JSON input")
                 /\ pc' = "finally"
          ELSE IF ~Truthy(body.contractId) \/ ~Truthy(body.contractAddress)
            THEN /\ response' =
                      ErrorResponse(400,
                        "Contract ID and contract address are required", "")
                 /\ pc' = "finally"
          ELSE /\ response' = response
               /\ pc' = "connect"
  /\ UNCHANGED << client, contract, verificationResult, guid, attempts,
                  finalStatus, statusResult, callerPresent, submissions,
                  queries, waits, pendings, errors, termAt, termKind, gets,
                  getResponse, getReply, lookup, postOthers >>

\* await client.connect()
Connect ==
  /\ pc = "connect"
  /\ \E ok \in BOOLEAN :
       IF ok
         THEN /\ client' = "open"
              /\ pc' = "find"
              /\ response' = response
         ELSE /\ client' = client
              /\ pc' = "finally"
              /\ response' = Caught("connect ECONNREFUSED")
  /\ UNCHANGED << contract, verificationResult, guid, attempts, finalStatus,
                  statusResult, callerPresent, submissions, queries, waits,
                  pendings, errors, termAt, termKind, gets, getResponse, getReply, pageVars >>

\* collection.findOne by ObjectId, falling back to the name, and the two
\* checks on the record; ends in the call of submitVerification
FindContract ==
  /\ pc = "find"
  /\ \E found \in StorageReplies :
       /\ lookup' = found.kind
       /\ IF found.kind = "throws"
            THEN /\ response' = Caught("storage operation failed")
                 /\ pc' = "finally"
                 /\ contract' = contract
          ELSE IF found.kind = "none"
            THEN /\ response' =
                      ErrorResponse(404, "Contract not found in database", "")
                 /\ pc' = "finally"
                 /\ contract' = contract
          ELSE IF ~Truthy(found.source) /\ ~Truthy(found.sourcePath)
            THEN /\ response' =
                      ErrorResponse(400,
                        "Contract source code not found in database", "")
                 /\ pc' = "finally"
                 /\ contract' = found
          ELSE /\ response' = response
               /\ pc' = "submit"
               /\ contract' = found
  /\ UNCHANGED << client, verificationResult, guid, attempts, finalStatus,
                  statusResult, callerPresent, submissions, queries, waits,
                  pendings, errors, termAt, termKind, gets, getResponse,
                  getReply, reqBody, postOthers >>

\* await submitVerification(...) and the test of verificationResult.status
Submit ==
  /\ pc = "submit"
  /\ \E reply \in SubmitReplies :
       LET sv == submitVerification(contract, reply)
           result == sv.result
       IN  /\ submissions' = IF sv.sent THEN submissions + 1 ELSE submissions
           /\ verificationResult' = sv.result
           /\ IF sv.threw
                THEN /\ response' = Caught(sv.error)
                     /\ pc' = "finally"
                     /\ UNCHANGED << guid, attempts, finalStatus >>
              ELSE IF result = Null
                THEN /\ response' =
                          Caught("Cannot read properties of null")
                     /\ pc' = "finally"
                     /\ UNCHANGED << guid, attempts, finalStatus >>
              ELSE IF SubmissionAccepted(result)
                THEN /\ guid' = result.result
                     /\ attempts' = 0
                     /\ finalStatus' = NoStatus
                     /\ response' = response
                     /\ pc' = "loop"
              ELSE /\ response' =
                        ErrorResponse(400, "Verification submission failed",
                          OrElse(result.result, "Unknown error"))
                   /\ pc' = "finally"
                   /\ UNCHANGED << guid, attempts, finalStatus >>
  /\ UNCHANGED << client, contract, statusResult, callerPresent, queries,
                  waits, pendings, errors, termAt, termKind, gets,
                  getResponse, getReply, pageVars >>

\* the loop test; when it holds the status query is issued
LoopTest ==
  /\ pc = "loop"
  /\ IF LoopCond(attempts)
       THEN /\ pc' = "query"
            /\ queries' = queries + 1
       ELSE /\ pc' = "afterloop"
            /\ queries' = queries
  /\ UNCHANGED << client, contract, verificationResult, guid, attempts,
                  finalStatus, statusResult, response, callerPresent,
                  submissions, waits, pendings, errors, termAt, termKind,
                  gets, getResponse, getReply, pageVars >>

\* the status query returns and the loop body classifies it
QueryReply ==
  /\ pc = "query"
  /\ \E reply \in StatusReplies :
       LET sr == checkVerificationStatus(reply)
           c == Classify(finalStatus, sr)
       IN  /\ statusResult' = sr
           /\ finalStatus' = c.final
           /\ pc' = IF c.brk THEN "afterloop" ELSE "wait"
           /\ pendings' = IF ObservedKind(sr) = "pending"
                             THEN pendings + 1 ELSE pendings
           /\ errors' = IF ObservedKind(sr) = "error"
                           THEN errors + 1 ELSE errors
           /\ IF termAt = 0 /\ ObservedKind(sr) \in TerminalKinds
                THEN /\ termAt' = queries
                     /\ termKind' = ObservedKind(sr)
                ELSE UNCHANGED << termAt, termKind >>
  /\ UNCHANGED << client, contract, verificationResult, guid, attempts,
                  response, callerPresent, submissions, queries, waits, gets,
                  getResponse, getReply, pageVars >>

\* Wait with attempts++ skipped after a query that returned null
Wait_ErrorsAreFree ==
  /\ pc = "wait"
  /\ waits' = waits + 1
  /\ attempts' = IF statusResult = Null THEN attempts ELSE attempts + 1
  /\ pc' = "loop"
  /\ UNCHANGED << client, contract, verificationResult, guid, finalStatus,
                  statusResult, response, callerPresent, submissions,
                  queries, pendings, errors, termAt, termKind, gets,
                  getResponse, getReply, pageVars >>

\* await new Promise(resolve => setTimeout(resolve, 10000)); attempts++
Wait ==
  /\ pc = "wait"
  /\ waits' = waits + 1
  /\ attempts' = attempts + 1
  /\ pc' = "loop"
  /\ UNCHANGED << client, contract, verificationResult, guid, finalStatus,
                  statusResult, response, callerPresent, submissions, queries,
                  pendings, errors, termAt, termKind, gets, getResponse, getReply, pageVars >>

\* the timeout test after the loop and the response of a completed process
AfterLoop ==
  /\ pc = "afterloop"
  /\ finalStatus' = IF TimeoutCond(attempts, finalStatus)
                      THEN TimeoutStatus ELSE finalStatus
  /\ response' = CompletedResponse(guid, finalStatus')
  /\ pc' = "finally"
  /\ UNCHANGED << client, contract, verificationResult, guid, attempts,
                  statusResult, callerPresent, submissions, queries, waits,
                  pendings, errors, termAt, termKind, gets, getResponse, getReply, pageVars >>

\* finally { await client.close() }; the response leaves the handler
Finally ==
  /\ pc = "finally"
  /\ client' = "closed"
  /\ pc' = "done"
  /\ UNCHANGED << contract, verificationResult, guid, attempts, finalStatus,
                  statusResult, response, callerPresent, submissions, queries,
                  waits, pendings, errors, termAt, termKind, gets,
                  getResponse, getReply, pageVars >>

\* ------------------------------------------------------------------------
\* GET /api/verify-contract?guid=

\* what the explorer can answer to a status query for token g: once it has
\* given a terminal answer for the token it repeats that answer, or the query
\* fails
ServiceReplies(g) ==
  IF Truthy(g) /\ g = guid /\ termAt # 0
    THEN { statusResult }
         \cup { r \in StatusReplies : r.kind # "json" }
    ELSE StatusReplies

\* Get with only a status-'1' answer treated as a result
Get_OnlyVerifiedSucceeds ==
  /\ pc = "done"
  /\ gets < MaxGets
  /\ gets' = gets + 1
  /\ \E g \in {"", response.guid} :
       \E reply \in ServiceReplies(g) :
         LET sr == checkVerificationStatus(reply)
         IN  /\ getReply' = IF Truthy(g) THEN reply ELSE Null
             /\ IF ~Truthy(g)
                  THEN getResponse' =
                         [http |-> 400, success |-> FALSE,
                          message |-> "GUID parameter is required",
                          status |-> Null]
                ELSE IF sr # Null /\ sr.status = "1"
                  THEN getResponse' = [http |-> 200, success |-> TRUE,
                                       message |-> "", status |-> sr]
                ELSE getResponse' =
                       [http |-> 500, success |-> FALSE,
                        message |-> "Failed to check verification status",
                        status |-> Null]
  /\ UNCHANGED << postVars, callerPresent, pageVars >>

\* the caller asks with the token that the POST response gave it, or with
\* no token at all
Get ==
  /\ pc = "done"
  /\ gets < MaxGets
  /\ gets' = gets + 1
  /\ \E g \in {"", response.guid} :
       \E reply \in ServiceReplies(g) :
         LET sr == checkVerificationStatus(reply)
         IN  /\ getReply' = IF Truthy(g) THEN reply ELSE Null
             /\ IF ~Truthy(g)
                  THEN getResponse' =
                         [http |-> 400, success |-> FALSE,
                          message |-> "GUID parameter is required",
                          status |-> Null]
                ELSE IF sr # Null
                  THEN getResponse' = [http |-> 200, success |-> TRUE,
                                       message |-> "", status |-> sr]
                ELSE getResponse' =
                       [http |-> 500, success |-> FALSE,
                        message |-> "Failed to check verification status",
                        status |-> Null]
  /\ UNCHANGED << postVars, callerPresent, pageVars >>

\* ------------------------------------------------------------------------
\* The page that called POST (handleVerifyContract awaits the fetch with no
\* abort signal) is unmounted while the request is in flight

Abandon ==
  /\ callerPresent
  /\ pc # "done"
  /\ callerPresent' = FALSE
  /\ UNCHANGED << postVars, gets, getResponse, getReply, pageVars >>

\* ------------------------------------------------------------------------

PostNext ==
  \/ ParseBody
  \/ Connect
  \/ FindContract
  \/ Submit
  \/ LoopTest
  \/ QueryReply
  \/ Wait
  \/ AfterLoop
  \/ Finally

Next ==
  \/ PostNext
  \/ Get
  \/ Abandon

Spec == Init /\ [][Next]_vars

\* every await of the handler settles: the service call returns or fails and
\* the timer fires
FairSpec == Spec /\ WF_vars(PostNext)

Responded == pc = "done"

TypeOK ==
  /\ pc \in {"body", "connect", "find", "submit", "loop", "query", "wait",
             "afterloop", "finally", "done"}
  /\ client \in {"closed", "open"}
  /\ attempts \in 0..maxAttempts
  /\ queries \in 0..maxAttempts
  /\ waits \in 0..maxAttempts
  /\ submissions \in 0..1
  /\ gets \in 0..MaxGets
  /\ callerPresent \in BOOLEAN
  /\ pendings \in 0..maxAttempts
  /\ errors \in 0..maxAttempts

\* ------------------------------------------------------------------------
\* Text.  A JavaScript string is a sequence of one-character strings, so that
\* toLowerCase, includes, startsWith, trim and BigInt work on its characters.

UpperCase ==
  << "A", "B", "C", "D", "E", "F", "G", "H", "I", "J", "K", "L", "M",
     "N", "O", "P", "Q", "R", "S", "T", "U", "V", "W", "X", "Y", "Z" >>

LowerCase ==
  << "a", "b", "c", "d", "e", "f", "g", "h", "i", "j", "k", "l", "m",
     "n", "o", "p", "q", "r", "s", "t", "u", "v", "w", "x", "y", "z" >>

LowerChar(c) ==
  IF \E i \in DOMAIN UpperCase : UpperCase[i] = c
    THEN LowerCase[CHOOSE i \in DOMAIN UpperCase : UpperCase[i] = c]
    ELSE c

\* String.prototype.toLowerCase
toLowerCase(str) == [i \in 1..Len(str) |-> LowerChar(str[i])]

\* String.prototype.includes
Includes(str, sub) ==
  \E i \in 0..(Len(str) - Len(sub)) : SubSeq(str, i + 1, i + Len(sub)) = sub

\* String.prototype.startsWith
StartsWith(str, pre) ==
  Len(str) >= Len(pre) /\ SubSeq(str, 1, Len(pre)) = pre

\* String.prototype.trim (spaces are the only white space of the model)
RECURSIVE TrimStart(_)
TrimStart(str) ==
  IF str # << >> /\ Head(str) = " " THEN TrimStart(Tail(str)) ELSE str

RECURSIVE TrimEnd(_)
TrimEnd(str) ==
  IF str # << >> /\ str[Len(str)] = " "
    THEN TrimEnd(SubSeq(str, 1, Len(str) - 1))
    ELSE str

Trim(str) == TrimEnd(TrimStart(str))

DecDigits == << "0", "1", "2", "3", "4", "5", "6", "7", "8", "9" >>

HexDigits ==
  << "0", "1", "2", "3", "4", "5", "6", "7", "8", "9",
     "a", "b", "c", "d", "e", "f" >>

DigitValue(digits, c) == (CHOOSE i \in DOMAIN digits : digits[i] = c) - 1

AllDigits(digits, str) ==
  /\ str # << >>
  /\ \A i \in DOMAIN str : \E j \in DOMAIN digits : digits[j] = str[i]

RECURSIVE NumberOf(_, _)
NumberOf(digits, str) ==
  IF str = << >> THEN 0
  ELSE NumberOf(digits, SubSeq(str, 1, Len(str) - 1)) * Len(digits)
         + DigitValue(digits, str[Len(str)])

\* longest numeric literal whose number is computed
MaxLiteral == 7

\* BigInt(text): [ok, n, s]; ok = FALSE stands for the SyntaxError it throws.
\* White space is trimmed, the empty text is 0n, a decimal literal may carry a
\* sign, a 0x literal may not. The number of a literal of more than
\* MaxLiteral characters is carried as its text s.
BigInt(str) ==
  LET t == Trim(str)
      short == Len(t) <= MaxLiteral
      long == IF short THEN << >> ELSE toLowerCase(t)
  IN  IF t = << >> THEN [ok |-> TRUE, n |-> 0, s |-> << >>]
      ELSE IF AllDigits(DecDigits, t)
        THEN [ok |-> TRUE, s |-> long,
              n |-> IF short THEN NumberOf(DecDigits, t) ELSE 0]
      ELSE IF Head(t) \in {"+", "-"} /\ AllDigits(DecDigits, Tail(t))
        THEN [ok |-> TRUE, s |-> long,
              n |-> IF ~short THEN 0
                    ELSE IF Head(t) = "-"
                      THEN 0 - NumberOf(DecDigits, Tail(t))
                    ELSE NumberOf(DecDigits, Tail(t))]
      ELSE IF StartsWith(t, << "0", "x" >>)
                /\ AllDigits(HexDigits, toLowerCase(SubSeq(t, 3, Len(t))))
        THEN [ok |-> TRUE, s |-> long,
              n |-> IF short
                      THEN NumberOf(HexDigits,
                                    toLowerCase(SubSeq(t, 3, Len(t))))
                      ELSE 0]
      ELSE [ok |-> FALSE, n |-> 0, s |-> << >>]

\* ------------------------------------------------------------------------
\* Typed values handed to the encoders

JsString(str) == [tag |-> "string", s |-> str, b |-> FALSE, n |-> 0]

JsBool(b) == [tag |-> "boolean", s |-> << >>, b |-> b, n |-> 0]

JsBigInt(n) == [tag |-> "bigint", s |-> << >>, b |-> FALSE, n |-> n]

\* the bigint BigInt returned
JsBigIntOf(r) == [tag |-> "bigint", s |-> r.s, b |-> FALSE, n |-> r.n]

\* a JSON number
JsNumber(n) == [tag |-> "number", s |-> << >>, b |-> FALSE, n |-> n]

\* the value the coercers return for an input that is not supplied yet: ""
EmptySentinel == JsString(<< >>)

\* type names
T_bool == << "b", "o", "o", "l" >>
T_boolean == << "b", "o", "o", "l", "e", "a", "n" >>
T_uint == << "u", "i", "n", "t" >>
T_int == << "i", "n", "t" >>
T_uint256 == << "u", "i", "n", "t", "2", "5", "6" >>
T_int8 == << "i", "n", "t", "8" >>
T_address == << "a", "d", "d", "r", "e", "s", "s" >>
T_bytes == << "b", "y", "t", "e", "s" >>
T_bytes32 == << "b", "y", "t", "e", "s", "3", "2" >>
T_string == << "s", "t", "r", "i", "n", "g" >>
T_uintArray == << "u", "i", "n", "t", "2", "5", "6", "[", "]" >>
T_stringArray == << "s", "t", "r", "i", "n", "g", "[", "]" >>
T_tuple == << "t", "u", "p", "l", "e" >>

\* the text "true"
S_true == << "t", "r", "u", "e" >>

\* ------------------------------------------------------------------------
\* Type Coercer

\* convertParamValue with the early return for "" left out
convertParamValue_NoEmptyCheck(value, type) ==
  IF type = T_bool \/ type = T_boolean
    THEN JsBool(toLowerCase(value) = S_true)
  ELSE JsString(value)

\* convertParamValue comparing with "true" as typed
convertParamValue_CaseSensitive(value, type) ==
  IF value = << >> THEN JsString(<< >>)
  ELSE IF type = T_bool \/ type = T_boolean
    THEN JsBool(value = S_true)
  ELSE JsString(value)

\* convertParamValue turning integer text into a number
convertParamValue_ParsesIntegers(value, type) ==
  IF value = << >> THEN JsString(<< >>)
  ELSE IF type = T_bool \/ type = T_boolean
    THEN JsBool(toLowerCase(value) = S_true)
  ELSE IF Includes(type, T_uint) \/ Includes(type, T_int)
    THEN IF BigInt(value).ok THEN JsBigInt(BigInt(value).n)
                             ELSE JsString(value)
  ELSE JsString(value)

\* convertParamValue(value, type) of the transaction page; no branch of the
\* try block can throw, so the catch is never taken
convertParamValue(value, type) ==
  IF value = << >> THEN JsString(<< >>)
  ELSE IF type = T_bool \/ type = T_boolean
    THEN JsBool(toLowerCase(value) = S_true)
  ELSE IF Includes(type, T_uint) \/ Includes(type, T_int)
    THEN JsString(value)
  ELSE IF type = T_address
    THEN JsString(value)
  ELSE IF type = T_bytes \/ StartsWith(type, T_bytes)
    THEN JsString(value)
  ELSE JsString(value)

\* the conversion inside finalArgs of the deploy page (form mode); raw is
\* constructorArgs[`arg_${index}`], already || ""
convertConstructorArg(raw, type) ==
  LET value == raw
  IN  IF value = << >> THEN JsString(<< >>)
      ELSE IF type = T_bool \/ type = T_boolean
        THEN JsBool(toLowerCase(value) = S_true)
      ELSE IF Includes(type, T_int) /\ ~Includes(type, T_string)
        THEN IF BigInt(value).ok
               THEN JsBigIntOf(BigInt(value))
               ELSE JsString(value)
      ELSE IF type = T_address
        THEN JsString(value)
      ELSE IF type = T_bytes \/ StartsWith(type, T_bytes)
        THEN JsString(value)
      ELSE JsString(value)

\* texts a user can enter
SampleValues ==
  { << >>,
    S_true,
    << "T", "R", "U", "E" >>,
    << "T", "r", "u", "e" >>,
    << " ", "t", "r", "u", "e" >>,
    << "f", "a", "l", "s", "e" >>,
    << "1" >>,
    << "0" >>,
    << "y", "e", "s" >>,
    << "1", "0", "0", "0" >>,
    << "-", "5" >>,
    << "0", "x", "a", "b" >>,
    << "a", "b", "c" >> }

\* declared type names
SampleTypes ==
  { T_bool, T_boolean, T_uint256, T_int8, T_address, T_bytes, T_bytes32,
    T_string, T_uintArray, T_stringArray, T_tuple }

CoerceInit ==
  /\ VerifyInit
  /\ LateIdle
  /\ TxIdle
  /\ DeployIdle
  /\ cvPc = "input"
  /\ cvValue \in SampleValues
  /\ cvType \in SampleTypes
  /\ cvTx = [tag |-> "unset", s |-> << >>, b |-> FALSE, n |-> 0]
  /\ cvDeploy = [tag |-> "unset", s |-> << >>, b |-> FALSE, n |-> 0]

\* the transaction page coerces the input
CoerceTx ==
  /\ cvPc = "input"
  /\ cvTx' = convertParamValue(cvValue, cvType)
  /\ cvPc' = "tx"
  /\ UNCHANGED << cvValue, cvType, cvDeploy, verifyVars, txVars,
                  deployVars, lateVars >>

\* the deploy page coerces the same input
CoerceDeploy ==
  /\ cvPc = "tx"
  /\ cvDeploy' = convertConstructorArg(cvValue, cvType)
  /\ cvPc' = "done"
  /\ UNCHANGED << cvValue, cvType, cvTx, verifyVars, txVars,
                  deployVars, lateVars >>

CoerceNext ==
  \/ CoerceTx
  \/ CoerceDeploy

CoerceSpec == CoerceInit /\ [][CoerceNext]_vars

\* ------------------------------------------------------------------------
\* Call Builder: handleExecuteTransaction of the transaction page

\* a well-formed address: 0x and 40 hexadecimal digits
A_valid == [i \in 1..42 |-> IF i = 1 THEN "0" ELSE IF i = 2 THEN "x" ELSE "a"]

\* the text "1000"
S_1000 == << "1", "0", "0", "0" >>

\* isAddress(value) of the encoder
IsAddress(str) ==
  /\ Len(str) = 42
  /\ StartsWith(str, << "0", "x" >>)
  /\ AllDigits(HexDigits, toLowerCase(SubSeq(str, 3, Len(str))))

\* the number is below 0
IsNegative(str) ==
  /\ Trim(str) # << >>
  /\ Head(Trim(str)) = "-"
  /\ \E i \in DOMAIN Trim(str) : Trim(str)[i] \in {"1", "2", "3", "4", "5",
                                                  "6", "7", "8", "9"}

\* the encoder's packing of one argument: [ok, word]; ok = FALSE stands for
\* the error it throws (a bool that is no boolean, an invalid address, a
\* text BigInt rejects, an unsigned integer below 0)
EncodeArg(type, arg) ==
  IF type = T_bool
    THEN [ok |-> arg.tag = "boolean", word |-> arg]
  ELSE IF type = T_address
    THEN [ok |-> arg.tag = "string" /\ IsAddress(arg.s),
          word |-> JsString(toLowerCase(arg.s))]
  ELSE IF StartsWith(type, T_uint) \/ StartsWith(type, T_int)
    THEN IF arg.tag \in {"bigint", "number"}
           THEN [ok |-> \/ StartsWith(type, T_int)
                        \/ arg.n >= 0 /\ ~IsNegative(arg.s),
                 word |-> [arg EXCEPT !.tag = "bigint"]]
         ELSE IF arg.tag = "string" /\ BigInt(arg.s).ok
           THEN [ok |-> StartsWith(type, T_int) \/ ~IsNegative(arg.s),
                 word |-> JsBigIntOf(BigInt(arg.s))]
         ELSE [ok |-> FALSE, word |-> arg]
  ELSE IF type = T_string
    THEN [ok |-> arg.tag = "string", word |-> arg]
  ELSE [ok |-> FALSE, word |-> arg]

\* generateFunctionAbi(func): the inputs of the one-function ABI
generateFunctionAbi(func) ==
  [name |-> func.name,
   inputs |-> [i \in 1..Len(func.params) |-> func.params[i].type]]

\* encodeFunctionData({abi, functionName, args}): [ok, data]; data is the
\* selector of name(types) followed by the packed arguments
encodeFunctionData(abi, functionName, args) ==
  IF Len(args) # Len(abi.inputs)
    THEN [ok |-> FALSE, data |-> [selector |-> << >>, words |-> << >>]]
  ELSE
    LET enc == [i \in 1..Len(args) |-> EncodeArg(abi.inputs[i], args[i])]
    IN  [ok |-> \A i \in 1..Len(args) : enc[i].ok,
         data |-> [selector |-> << functionName, abi.inputs >>,
                   words |-> [i \in 1..Len(args) |-> enc[i].word]]]

\* stored functions (FunctionData without the stored values)
F_mint ==
  [name |-> "mint", contract_address |-> "0xToken",
   params |-> << [name |-> "to", type |-> T_address],
                 [name |-> "amount", type |-> T_uint256] >>]

F_setFlag ==
  [name |-> "setFlag", contract_address |-> "0xVault",
   params |-> << [name |-> "on", type |-> T_bool] >>]

F_setName ==
  [name |-> "setName", contract_address |-> "0xRegistry",
   params |-> << [name |-> "name", type |-> T_string] >>]

FunctionTemplates == { F_mint, F_setFlag, F_setName }

\* the function lists of stored transactions
TxBatches ==
  UNION { [1..n -> FunctionTemplates] : n \in 0..MaxFunctions }

\* texts of stored parameter values and of the inputs
TxValues == { A_valid, S_1000, S_true }

\* the keys `${funcIndex}_${paramIndex}` of the parameters of a batch
ParamKeys(fs) ==
  { << f, i >> : f \in 0..(MaxFunctions - 1), i \in 0..1 }
  \cap { k \in (0..MaxFunctions) \X (0..1) :
           /\ k[1] < Len(fs)
           /\ k[2] < Len(fs[k[1] + 1].params) }

\* paramValues after loadTransactionData: a stored parameter with no value
\* leaves its key without a text
InitialParamValues(fs) ==
  UNION { [ks -> TxValues] : ks \in SUBSET ParamKeys(fs) }

\* getCurrentParamValue(funcIndex, paramIndex): paramValues[key] || ""
getCurrentParamValue(f, i) ==
  IF << f, i >> \in DOMAIN paramValues
    THEN paramValues[<< f, i >>]
    ELSE << >>

\* func.params.map((param, paramIndex) => convertParamValue(...))
ArgsOf(f) ==
  LET func == functions[f + 1]
  IN  [i \in 1..Len(func.params) |->
         convertParamValue(getCurrentParamValue(f, i - 1),
                           func.params[i].type)]

TxInit ==
  /\ VerifyInit
  /\ LateIdle
  /\ CoerceIdle
  /\ DeployIdle
  /\ txPc = "idle"
  /\ functions \in TxBatches
  /\ paramValues \in InitialParamValues(functions)
  /\ funcIndex = 0
  /\ calls = << >>
  /\ sends = 0
  /\ sentCalls = << >>
  /\ executionStatus = ""
  /\ isExecuting = FALSE
  /\ txError = ""
  /\ sawPending = FALSE
  /\ receipts = "none"

\* the page renders the form with its button: with an error set,
\* `if (error || !transactionData)` returns the 'Transaction Data Not Found'
\* view instead, which has a link to the home page only
TxFormShown == txError = ""

\* updateParamValue(funcIndex, paramIndex, value) from an input of the form
EditParam ==
  /\ TxFormShown
  /\ txPc = "idle"
  /\ \E k \in ParamKeys(functions), v \in TxValues :
       paramValues' =
         [x \in DOMAIN paramValues \cup {k} |->
            IF x = k THEN v ELSE paramValues[x]]
  /\ UNCHANGED << txPc, functions, funcIndex, calls, sends, sentCalls,
                  executionStatus, isExecuting, txError, sawPending,
                  receipts, verifyVars, coerceVars, deployVars,
                  lateVars >>

\* the entry of handleExecuteTransaction: the wallet check and the resets
StartExecute ==
  /\ TxFormShown
  /\ txPc = "idle"
  /\ \E walletAvailable \in BOOLEAN :
       IF ~walletAvailable
         THEN /\ txError' = "Transaction data or wallet not available"
              /\ UNCHANGED << txPc, funcIndex, calls, sends, sentCalls,
                              executionStatus, isExecuting, sawPending,
                              receipts >>
         ELSE /\ isExecuting' = TRUE
              /\ txError' = ""
              /\ executionStatus' = ""
              /\ calls' = << >>
              /\ funcIndex' = 0
              /\ sends' = 0
              /\ sentCalls' = << >>
              /\ sawPending' = FALSE
              /\ receipts' = "none"
              /\ txPc' = "build"
  /\ UNCHANGED << functions, paramValues, verifyVars, coerceVars, deployVars,
                  lateVars >>

\* BuildStep with a failed fragment skipped instead of aborting the batch
BuildStep_SkipsFailures ==
  /\ txPc = "build"
  /\ funcIndex < Len(functions)
  /\ LET func == functions[funcIndex + 1]
         abi == generateFunctionAbi(func)
         e == encodeFunctionData(abi, func.name, ArgsOf(funcIndex))
     IN  /\ calls' = IF e.ok
                       THEN Append(calls, [to |-> func.contract_address,
                                           data |-> e.data, value |-> 0])
                       ELSE calls
         /\ funcIndex' = funcIndex + 1
  /\ UNCHANGED << txPc, txError, executionStatus, isExecuting, functions,
                  paramValues, sends, sentCalls, sawPending, receipts,
                  verifyVars, coerceVars, deployVars,
                  lateVars >>

\* BuildStep with the new descriptor put in front of the others
BuildStep_Prepends ==
  /\ txPc = "build"
  /\ funcIndex < Len(functions)
  /\ LET func == functions[funcIndex + 1]
         abi == generateFunctionAbi(func)
         e == encodeFunctionData(abi, func.name, ArgsOf(funcIndex))
     IN  IF e.ok
           THEN /\ calls' = << [to |-> func.contract_address,
                                data |-> e.data, value |-> 0] >> \o calls
                /\ funcIndex' = funcIndex + 1
                /\ UNCHANGED << txPc, txError, executionStatus, isExecuting >>
           ELSE /\ txError' = "encoding failed"
                /\ executionStatus' = "failed"
                /\ isExecuting' = FALSE
                /\ txPc' = "idle"
                /\ UNCHANGED << calls, funcIndex >>
  /\ UNCHANGED << functions, paramValues, sends, sentCalls, sawPending,
                  receipts, verifyVars, coerceVars, deployVars,
                  lateVars >>

\* one iteration of the for loop: the arguments are read and coerced, the
\* calldata encoded and the descriptor pushed; an encoding error goes to the
\* catch block
BuildStep ==
  /\ txPc = "build"
  /\ funcIndex < Len(functions)
  /\ LET func == functions[funcIndex + 1]
         abi == generateFunctionAbi(func)
         e == encodeFunctionData(abi, func.name, ArgsOf(funcIndex))
     IN  IF e.ok
           THEN /\ calls' = Append(calls, [to |-> func.contract_address,
                                           data |-> e.data, value |-> 0])
                /\ funcIndex' = funcIndex + 1
                /\ UNCHANGED << txPc, txError, executionStatus, isExecuting >>
           ELSE /\ txError' = "encoding failed"
                /\ executionStatus' = "failed"
                /\ isExecuting' = FALSE
                /\ txPc' = "idle"
                /\ UNCHANGED << calls, funcIndex >>
  /\ UNCHANGED << functions, paramValues, sends, sentCalls, sawPending,
                  receipts, verifyVars, coerceVars, deployVars,
                  lateVars >>

\* the loop has ended: sendCalls(wagmiConfig, {calls}) is invoked
SendCalls ==
  /\ txPc = "build"
  /\ funcIndex >= Len(functions)
  /\ sends' = sends + 1
  /\ sentCalls' = calls
  /\ txPc' = "sending"
  /\ UNCHANGED << functions, paramValues, funcIndex, calls, executionStatus,
                  isExecuting, txError, sawPending, receipts, verifyVars,
                  coerceVars, deployVars,
                  lateVars >>

\* sendCalls resolves with an id or rejects
SendSettles ==
  /\ txPc = "sending"
  /\ \E resolved \in BOOLEAN :
       IF resolved
         THEN /\ executionStatus' = "pending"
              /\ sawPending' = TRUE
              /\ txPc' = "waiting"
              /\ UNCHANGED << txError, isExecuting >>
         ELSE /\ txError' = "User rejected the request"
              /\ executionStatus' = "failed"
              /\ isExecuting' = FALSE
              /\ txPc' = "idle"
              /\ UNCHANGED sawPending
  /\ UNCHANGED << functions, paramValues, funcIndex, calls, sends,
                  sentCalls, receipts, verifyVars, coerceVars, deployVars,
                  lateVars >>

\* WaitSettles with the test written as if (receipts)
WaitSettles_TruthyReceipts ==
  /\ txPc = "waiting"
  /\ \E outcome \in {"some", "empty", "rejected"} :
       /\ receipts' = outcome
       /\ IF outcome \in {"some", "empty"}
            THEN /\ executionStatus' = "success"
                 /\ UNCHANGED txError
            ELSE /\ executionStatus' = "failed"
                 /\ txError' = "waitForCallsStatus failed"
  /\ isExecuting' = FALSE
  /\ txPc' = "idle"
  /\ UNCHANGED << functions, paramValues, funcIndex, calls, sends,
                  sentCalls, sawPending, verifyVars, coerceVars, deployVars,
                  lateVars >>

\* waitForCallsStatus resolves with receipts (some or none) or rejects
WaitSettles ==
  /\ txPc = "waiting"
  /\ \E outcome \in {"some", "empty", "rejected"} :
       /\ receipts' = outcome
       /\ IF outcome = "some"
            THEN /\ executionStatus' = "success"
                 /\ UNCHANGED txError
          ELSE IF outcome = "empty"
            THEN /\ executionStatus' = "failed"
                 /\ UNCHANGED txError
          ELSE /\ executionStatus' = "failed"
               /\ txError' = "waitForCallsStatus failed"
  /\ isExecuting' = FALSE
  /\ txPc' = "idle"
  /\ UNCHANGED << functions, paramValues, funcIndex, calls, sends,
                  sentCalls, sawPending, verifyVars, coerceVars, deployVars,
                  lateVars >>

TxNext ==
  \/ EditParam
  \/ StartExecute
  \/ BuildStep
  \/ SendCalls
  \/ SendSettles
  \/ WaitSettles

TxSpec == TxInit /\ [][TxNext]_vars

\* ------------------------------------------------------------------------
\* Encoder of constructor arguments: finalArgs, encodedArgs and
\* handleVerifyContract of the deploy page, constructorArguments of the route

\* largest number of constructor parameters
MaxParams == 1

\* number of deployments followed
MaxDeploys == 2

\* one character of a hexadecimal text
HexChar(c) == [tag |-> "hexchar", s |-> << c >>, b |-> FALSE, n |-> 0]

\* the parts of text between the separators sep
RECURSIVE SplitOn(_, _)
SplitOn(text, sep) ==
  IF \A i \in DOMAIN text : text[i] # sep
    THEN << text >>
    ELSE LET i == CHOOSE j \in DOMAIN text :
                    text[j] = sep /\ \A k \in 1..(j - 1) : text[k] # sep
         IN  << SubSeq(text, 1, i - 1) >>
               \o SplitOn(SubSeq(text, i + 1, Len(text)), sep)

\* JSON.parse of one scalar: a number, true, false or a quoted text without
\* escapes; tag "invalid" stands for the SyntaxError
JsonScalar(text) ==
  LET t == Trim(text)
  IN  IF AllDigits(DecDigits, t) THEN JsNumber(NumberOf(DecDigits, t))
      ELSE IF t = S_true THEN JsBool(TRUE)
      ELSE IF t = << "f", "a", "l", "s", "e" >> THEN JsBool(FALSE)
      ELSE IF /\ Len(t) >= 2
              /\ t[1] = "\""
              /\ t[Len(t)] = "\""
              /\ \A i \in 2..(Len(t) - 1) : t[i] # "\""
        THEN JsString(SubSeq(t, 2, Len(t) - 1))
      ELSE [tag |-> "invalid", s |-> << >>, b |-> FALSE, n |-> 0]

\* JSON.parse(text) for scalars, {} and arrays of scalars (no comma inside a
\* quoted text): [ok, isArray, items]; ok = FALSE stands for the SyntaxError
JsonParse(text) ==
  LET t == Trim(text)
      inner == Trim(SubSeq(t, 2, Len(t) - 1))
      items == [i \in DOMAIN SplitOn(inner, ",") |->
                  JsonScalar(SplitOn(inner, ",")[i])]
  IN  IF Len(t) >= 2 /\ t[1] = "[" /\ t[Len(t)] = "]"
        THEN IF inner = << >>
               THEN [ok |-> TRUE, isArray |-> TRUE, items |-> << >>]
               ELSE [ok |-> \A i \in DOMAIN items : items[i].tag # "invalid",
                     isArray |-> TRUE, items |-> items]
      ELSE IF t = << "{", "}" >>
        THEN [ok |-> TRUE, isArray |-> FALSE, items |-> << >>]
      ELSE [ok |-> JsonScalar(t).tag # "invalid", isArray |-> FALSE,
            items |-> << >>]

\* const finalArgs = useMemo(...): the JSON array, or the coerced form inputs
finalArgs ==
  IF ~useDynamicArgs
    THEN IF Trim(argsText) = << >> THEN << >>
         ELSE IF JsonParse(argsText).ok /\ JsonParse(argsText).isArray
           THEN JsonParse(argsText).items
         ELSE << >>
    ELSE [i \in 1..Len(constructorParams) |->
            convertConstructorArg(constructorArgs[i], constructorParams[i])]

\* encodeAbiParameters(params, values): [ok, hex]; hex is 0x and the packed
\* arguments; ok = FALSE stands for the error it throws (the lengths differ,
\* or an argument does not pack)
encodeAbiParameters(types, values) ==
  IF Len(types) # Len(values)
    THEN [ok |-> FALSE, hex |-> << >>]
  ELSE
    LET enc == [i \in 1..Len(values) |-> EncodeArg(types[i], values[i])]
    IN  [ok |-> \A i \in 1..Len(values) : enc[i].ok,
         hex |-> << HexChar("0"), HexChar("x") >>
                   \o [i \in 1..Len(values) |-> enc[i].word]]

\* text.slice(n)
Slice(text, n) == SubSeq(text, n + 1, Len(text))

\* const encodedArgs = useMemo(...)
encodedArgs ==
  IF Len(constructorParams) = 0 \/ Len(finalArgs) = 0
    THEN << >>
  ELSE IF encodeAbiParameters(constructorParams, finalArgs).ok
    THEN Slice(encodeAbiParameters(constructorParams, finalArgs).hex, 2)
  ELSE << >>

\* constructorArguments: constructorArgs ?? "" of submitVerification
constructorArgumentsOf(field) ==
  IF field.absent THEN << >> ELSE field.text

\* constructor parameter types of the stored contracts
ParamTypes == { T_bool, T_uint256, T_string }

ParamLists == UNION { [1..n -> ParamTypes] : n \in 0..MaxParams }

\* texts typed into a form input
FormValues == { << >>, S_true, S_1000 }

\* texts typed into the JSON field
ArgsTexts ==
  { << "[", "]" >>, << >>, << "{", "}" >>, << "[", "7" >>,
    << "[", "7", "]" >>, << "[", "\"", "\"", "]" >>,
    << "[", "\"", "a", "\"", ",", "7", "]" >> }

\* addresses the receipts of successive deployments carry
DeployedAddresses == << "0xD1", "0xD2", "0xD3", "0xD4" >>

\* `Constructor expects ${requiredArgs} arg(s), but received ${n}.`
CountError(requiredArgs, n) ==
  [text |-> "Constructor expects N arg(s), but received M.",
   expected |-> requiredArgs, received |-> n]

\* e.shortMessage || e.message, or "Deployment failed."
DeployFailed == [text |-> "Deployment failed.", expected |-> 0, received |-> 0]

\* the page after the contract was loaded and the effect of lines 125-131 has
\* emptied the form inputs
DeployInit ==
  /\ VerifyInit
  /\ LateIdle
  /\ TxIdle
  /\ CoerceIdle
  /\ dpPc = "form"
  /\ constructorParams \in ParamLists
  /\ useDynamicArgs = TRUE
  /\ constructorArgs = [i \in 1..Len(constructorParams) |-> << >>]
  /\ argsText = << "[", "]" >>
  /\ contractAddress = ""
  /\ dpError = NoError
  /\ verificationMessage = ""
  /\ verifyBody = NoBody
  /\ constructorArguments = << >>
  /\ isDeploying = FALSE
  /\ deploys = 0
  /\ deployArgs = NoDeployArgs
  /\ verificationStatus = ""
  /\ verificationGuid = ""
  /\ verifyAddress = ""
  /\ abiShape = "array"

\* the page is open and renders the form with its buttons: with an error
\* set, `if (error || !contract)` returns the 'Contract Not Found' view
\* instead, which has a link to the home page only
FormShown == dpPc # "off" /\ dpError = NoError

\* no handler of the page is waiting for an answer
PageQuiet == dpPc = "form" /\ ~isDeploying

\* onChange of the form input arg_i
SetConstructorArg ==
  /\ FormShown
  /\ PageQuiet
  /\ \E i \in 1..Len(constructorParams), v \in FormValues :
       constructorArgs' = [constructorArgs EXCEPT ![i] = v]
  /\ UNCHANGED << dpPc, constructorParams, useDynamicArgs, argsText,
                  contractAddress, dpError, shownVars, verifyBody,
                  constructorArguments, isDeploying, deploys, deployArgs,
                  verifyAddress, abiShape, notDeployVars >>

\* the two buttons that choose between the form and the JSON text
SetUseDynamicArgs ==
  /\ FormShown
  /\ PageQuiet
  /\ \E b \in BOOLEAN : useDynamicArgs' = b
  /\ UNCHANGED << dpPc, constructorParams, constructorArgs, argsText,
                  contractAddress, dpError, shownVars, verifyBody,
                  constructorArguments, isDeploying, deploys, deployArgs,
                  verifyAddress, abiShape, notDeployVars >>

\* onChange of the JSON text area
SetArgsText ==
  /\ FormShown
  /\ PageQuiet
  /\ \E t \in ArgsTexts : argsText' = t
  /\ UNCHANGED << dpPc, constructorParams, useDynamicArgs, constructorArgs,
                  contractAddress, dpError, shownVars, verifyBody,
                  constructorArguments, isDeploying, deploys, deployArgs,
                  verifyAddress, abiShape, notDeployVars >>

\* handleDeploy up to the call of walletClient.deployContract: the button is
\* enabled (canDeploy && !isDeploying, so wallet, ABI and bytecode are there),
\* error and address are cleared, the argument count is checked
HandleDeploy ==
  /\ FormShown
  /\ ~isDeploying
  /\ deploys < MaxDeploys
  /\ contractAddress' = ""
  /\ IF Len(constructorParams) # Len(finalArgs)
       THEN /\ dpError' = CountError(Len(constructorParams), Len(finalArgs))
            /\ UNCHANGED << isDeploying, deploys, deployArgs >>
       ELSE /\ dpError' = NoError
            /\ isDeploying' = TRUE
            /\ deploys' = deploys + 1
            /\ deployArgs' = [called |-> TRUE, args |-> finalArgs]
  /\ UNCHANGED << dpPc, formVars, shownVars, verifyBody,
                  constructorArguments, verifyAddress, notDeployVars >>

\* handleDeploy of the JSON-only deploy page: as HandleDeploy, but the count
\* is validated inside try { } catch {}: when parsedAbi is no array of
\* fragments its find throws and the validation is skipped
HandleDeployJson ==
  /\ FormShown
  /\ ~isDeploying
  /\ ~useDynamicArgs
  /\ deploys < MaxDeploys
  /\ contractAddress' = ""
  /\ IF abiShape = "array" /\ Len(constructorParams) # Len(finalArgs)
       THEN /\ dpError' = CountError(Len(constructorParams), Len(finalArgs))
            /\ UNCHANGED << isDeploying, deploys, deployArgs >>
       ELSE /\ dpError' = NoError
            /\ isDeploying' = TRUE
            /\ deploys' = deploys + 1
            /\ deployArgs' = [called |-> TRUE, args |-> finalArgs]
  /\ UNCHANGED << dpPc, formVars, shownVars, verifyBody,
                  constructorArguments, verifyAddress, notDeployVars >>

\* deployContract and waitForTransactionReceipt settle: the wallet throws
\* when the arguments do not pack or the user rejects, the receipt may carry
\* no address; finally isDeploying is reset
DeploySettles ==
  /\ isDeploying
  /\ IF ~encodeAbiParameters(constructorParams, deployArgs.args).ok
       THEN /\ dpError' = DeployFailed
            /\ UNCHANGED contractAddress
       ELSE \E outcome \in {"deployed", "rejected", "noAddress"} :
              /\ dpError' = IF outcome = "rejected"
                              THEN DeployFailed ELSE dpError
              /\ contractAddress' = IF outcome = "deployed"
                                      THEN DeployedAddresses[deploys]
                                      ELSE contractAddress
  /\ isDeploying' = FALSE
  /\ UNCHANGED << dpPc, formVars, shownVars, verifyBody,
                  constructorArguments, deploys, deployArgs, verifyAddress,
                  notDeployVars >>

\* HandleVerifyContract with the text of the JSON field sent as it is
HandleVerifyContract_SendsArgsText ==
  /\ FormShown
  /\ dpPc = "form"
  /\ IF contractAddress = ""
       THEN /\ verificationMessage' =
                 "No contract address or contract data available"
            /\ UNCHANGED << dpPc, verifyBody, verificationStatus,
                            verificationGuid, verifyAddress >>
       ELSE /\ verificationStatus' = ""
            /\ verificationMessage' = ""
            /\ verificationGuid' = ""
            /\ verifyBody' = [absent |-> FALSE, text |-> Trim(argsText)]
            /\ verifyAddress' = contractAddress
            /\ dpPc' = "requested"
  /\ UNCHANGED << formVars, contractAddress, dpError, constructorArguments,
                  isDeploying, deploys, deployArgs, notDeployVars >>

\* handleVerifyContract up to the fetch: the outcome shown is cleared and the
\* body carries contractAddress and encodedArgs
HandleVerifyContract ==
  /\ FormShown
  /\ dpPc = "form"
  /\ IF contractAddress = ""
       THEN /\ verificationMessage' =
                 "No contract address or contract data available"
            /\ UNCHANGED << dpPc, verifyBody, verificationStatus,
                            verificationGuid, verifyAddress >>
       ELSE /\ verificationStatus' = ""
            /\ verificationMessage' = ""
            /\ verificationGuid' = ""
            /\ verifyBody' = [absent |-> FALSE, text |-> encodedArgs]
            /\ verifyAddress' = contractAddress
            /\ dpPc' = "requested"
  /\ UNCHANGED << formVars, contractAddress, dpError, constructorArguments,
                  isDeploying, deploys, deployArgs, notDeployVars >>

\* the route builds the submission payload from the body it received
BuildSubmission ==
  /\ dpPc = "requested"
  /\ constructorArguments' = constructorArgumentsOf(verifyBody)
  /\ dpPc' = "submitted"
  /\ UNCHANGED << formVars, contractAddress, dpError, shownVars, verifyBody,
                  isDeploying, deploys, deployArgs, verifyAddress,
                  notDeployVars >>

\* the answer of the route arrives (or the fetch fails): status, message and
\* token are shown and isVerifying is reset; the request is over
VerifyAnswered ==
  /\ dpPc = "submitted"
  /\ \E answer \in {"verified", "submitted", "failed"} :
       /\ verificationStatus' = answer
       /\ verificationGuid' = IF answer = "failed" THEN "" ELSE "guid"
       /\ verificationMessage' =
            IF answer = "failed" THEN "Verification failed"
            ELSE "Verification submitted successfully"
  /\ verifyBody' = NoBody
  /\ constructorArguments' = << >>
  /\ dpPc' = "form"
  /\ UNCHANGED << formVars, contractAddress, dpError, isDeploying, deploys,
                  deployArgs, verifyAddress, notDeployVars >>

DeployNext ==
  \/ SetConstructorArg
  \/ SetUseDynamicArgs
  \/ SetArgsText
  \/ HandleDeploy
  \/ DeploySettles
  \/ HandleVerifyContract
  \/ BuildSubmission
  \/ VerifyAnswered

DeploySpec == DeployInit /\ [][DeployNext]_vars

\* the JSON-only deploy page after the contract was loaded: the arguments are
\* the JSON text; an ABI text that parses to something else than an array has
\* no constructor
JsonPageInit ==
  /\ VerifyInit
  /\ LateIdle
  /\ TxIdle
  /\ CoerceIdle
  /\ dpPc = "form"
  /\ abiShape \in {"array", "notArray"}
  /\ constructorParams \in
       (IF abiShape = "array" THEN ParamLists ELSE { << >> })
  /\ useDynamicArgs = FALSE
  /\ constructorArgs = << >>
  /\ argsText = << "[", "]" >>
  /\ contractAddress = ""
  /\ dpError = NoError
  /\ verificationMessage = ""
  /\ verifyBody = NoBody
  /\ constructorArguments = << >>
  /\ isDeploying = FALSE
  /\ deploys = 0
  /\ deployArgs = NoDeployArgs
  /\ verificationStatus = ""
  /\ verificationGuid = ""
  /\ verifyAddress = ""

JsonPageNext ==
  \/ SetArgsText
  \/ HandleDeployJson
  \/ DeploySettles

JsonPageSpec == JsonPageInit /\ [][JsonPageNext]_vars

\* ------------------------------------------------------------------------
\* Normalisation of uploaded artifacts: extractBytecodeString,
\* extractDeployedBytecodeString and normalizeContractData

\* a field holding a string
StringField(t) == [kind |-> "string", s |-> t, hasObject |-> FALSE,
                   object |-> ""]

\* a field holding an object, with or without the member 'object'
ObjectField(has, t) == [kind |-> "object", s |-> "", hasObject |-> has,
                        object |-> t]

\* hex texts of artifacts
BytecodeTexts == { "", "0x60a0", "0x6080" }

\* what the bytecode or deployedBytecode field of an artifact can hold
BytecodeFields ==
  { AbsentField, ObjectField(FALSE, "") }
  \cup { StringField(t) : t \in BytecodeTexts }
  \cup { ObjectField(TRUE, t) : t \in BytecodeTexts }

\* x && typeof x === 'object' && 'object' in x
HasObjectMember(field) == field.kind = "object" /\ field.hasObject

extractBytecodeString(cd) ==
  IF cd.bytecode.kind = "string" THEN cd.bytecode.s
  ELSE IF HasObjectMember(cd.bytecode)
    THEN OrElse(cd.bytecode.object, "")
  ELSE IF HasObjectMember(cd.deployedBytecode)
    THEN OrElse(cd.deployedBytecode.object, "")
  ELSE IF cd.deployedBytecode.kind = "string" THEN cd.deployedBytecode.s
  ELSE ""

extractDeployedBytecodeString(cd) ==
  IF cd.deployedBytecode.kind = "string" THEN cd.deployedBytecode.s
  ELSE IF HasObjectMember(cd.deployedBytecode)
    THEN OrElse(cd.deployedBytecode.object, "")
  ELSE extractBytecodeString(cd)

\* normalizeContractData(contractData): a copy whose fields are replaced by
\* the extracted strings when these are not empty
normalizeContractData(cd) ==
  [bytecode |->
     IF Truthy(extractBytecodeString(cd))
       THEN StringField(extractBytecodeString(cd))
       ELSE cd.bytecode,
   deployedBytecode |->
     IF Truthy(extractDeployedBytecodeString(cd))
       THEN StringField(extractDeployedBytecodeString(cd))
       ELSE cd.deployedBytecode]

NormInit ==
  /\ VerifyInit
  /\ TxIdle
  /\ CoerceIdle
  /\ DeployIdle
  /\ ReqIdle
  /\ RouteIdle
  /\ nzPc = "input"
  /\ rawContractData \in [bytecode : BytecodeFields,
                          deployedBytecode : BytecodeFields]
  /\ normalizedData = [bytecode |-> AbsentField,
                       deployedBytecode |-> AbsentField]

\* const normalizedData = normalizeContractData(rawContractData)
Normalize ==
  /\ nzPc = "input"
  /\ normalizedData' = normalizeContractData(rawContractData)
  /\ nzPc' = "done"
  /\ UNCHANGED << rawContractData, verifyVars, txVars, coerceVars,
                  deployVars, reqVars, routeVars >>

NormNext == Normalize

NormSpec == NormInit /\ [][NormNext]_vars

\* ------------------------------------------------------------------------
\* The two pages with an action of the user's: a visitor opens the
\* transaction page or the deploy page

PagesInit == TxInit \/ DeployInit

PagesNext == TxNext \/ DeployNext

PagesSpec == PagesInit /\ [][PagesNext]_vars

\* ------------------------------------------------------------------------
\* The storage routes contracts/[id] and transactions/[id]: GET and DELETE

MaxRequests == 2

\* the record of the database the requests are about
Record1 == [oid |-> "o1", name |-> "n1"]

Records == { Record1 }

\* the id of the path: the 24 hex digits of an _id, or any other text
RequestIds ==
  { [form |-> "oid", key |-> "o1"],
    [form |-> "text", key |-> "n1"],
    [form |-> "text", key |-> "zz"] }

\* new ObjectId(id) returns; it throws for a text that is not an _id
ObjectIdValid(id) == id.form = "oid"

\* the records a filter selects: {_id: new ObjectId(id)}, or
\* {$or: [{name: id}, ...]}
Matching(records, id, byName) ==
  { rec \in records :
      IF byName THEN rec.name = id.key ELSE rec.oid = id.key }

\* const collection = db.collection(...)
CollectionOf(route, method) ==
  IF route = "transactions" /\ method = "DELETE"
    THEN "transactions"
    ELSE "contracts"

\* findOne or deleteOne on a connected client and the response that follows:
\* the status code and the collections afterwards
Operate(route, method, st, id, byName) ==
  LET coll == CollectionOf(route, method)
      hit == Matching(st[coll], id, byName)
  IN  IF hit = {}
        THEN [http |-> 404, store |-> st]
      ELSE IF method = "GET"
        THEN [http |-> 200, store |-> st]
      ELSE [http |-> 200,
            store |-> [st EXCEPT ![coll] = @ \ {CHOOSE rec \in hit : TRUE}]]

RouteRequests ==
  [method : {"GET", "DELETE"}, id : RequestIds, pc : {"connect"},
   http : {0}]

RouteInit ==
  /\ VerifyInit
  /\ TxIdle
  /\ CoerceIdle
  /\ DeployIdle
  /\ NormIdle
  /\ ReqIdle
  /\ routeName \in {"contracts", "transactions"}
  /\ routeClient = "closed"
  /\ store \in [contracts : SUBSET Records, transactions : SUBSET Records]
  /\ rq \in [1..MaxRequests -> RouteRequests]

\* await client.connect()
RouteConnect ==
  /\ \E r \in DOMAIN rq :
       /\ rq[r].pc = "connect"
       /\ \E ok \in BOOLEAN :
            IF ok
              THEN /\ routeClient' = "open"
                   /\ rq' = [rq EXCEPT ![r].pc = "first"]
              ELSE /\ routeClient' = routeClient
                   /\ rq' = [rq EXCEPT ![r].pc = "finally", ![r].http = 500]
  /\ UNCHANGED << routeName, store, verifyVars, txVars, coerceVars,
                  deployVars, normVars, reqVars >>

\* try { await collection.findOne / deleteOne({_id: new ObjectId(id)}) }:
\* whatever is thrown, by ObjectId or by the driver on a closed client,
\* leads to the catch with the filter by name
RouteFirst ==
  /\ \E r \in DOMAIN rq :
       /\ rq[r].pc = "first"
       /\ IF ~ObjectIdValid(rq[r].id) \/ routeClient = "closed"
            THEN /\ rq' = [rq EXCEPT ![r].pc = "byName"]
                 /\ store' = store
            ELSE LET o == Operate(routeName, rq[r].method, store, rq[r].id,
                                  FALSE)
                 IN  /\ rq' = [rq EXCEPT ![r].pc = "finally",
                                         ![r].http = o.http]
                     /\ store' = o.store
  /\ UNCHANGED << routeName, routeClient, verifyVars, txVars, coerceVars,
                  deployVars, normVars, reqVars >>

\* catch { await collection.findOne / deleteOne({$or: [{name: id}, ...]}) };
\* on a closed client the driver throws and the outer catch answers 500
RouteByName ==
  /\ \E r \in DOMAIN rq :
       /\ rq[r].pc = "byName"
       /\ IF routeClient = "closed"
            THEN /\ rq' = [rq EXCEPT ![r].pc = "finally", ![r].http = 500]
                 /\ store' = store
            ELSE LET o == Operate(routeName, rq[r].method, store, rq[r].id,
                                  TRUE)
                 IN  /\ rq' = [rq EXCEPT ![r].pc = "finally",
                                         ![r].http = o.http]
                     /\ store' = o.store
  /\ UNCHANGED << routeName, routeClient, verifyVars, txVars, coerceVars,
                  deployVars, normVars, reqVars >>

\* finally { await client.close() }
RouteFinally ==
  /\ \E r \in DOMAIN rq :
       /\ rq[r].pc = "finally"
       /\ rq' = [rq EXCEPT ![r].pc = "done"]
  /\ routeClient' = "closed"
  /\ UNCHANGED << routeName, store, verifyVars, txVars, coerceVars,
                  deployVars, normVars, reqVars >>

RouteNext ==
  \/ RouteConnect
  \/ RouteFirst
  \/ RouteByName
  \/ RouteFinally

RouteSpec == RouteInit /\ [][RouteNext]_vars

\* ------------------------------------------------------------------------
\* Properties of the verification poller

ClosedOutcomes ==
  {"verified", "already_verified", "pending", "failed", "timeout"}

\* C1: when the budget of 30 status queries is exhausted and every
\* observation was 'Pending in queue', the reported status is 'timeout'
\* (and not 'failed' or anything else).
C1_ExhaustedWhilePendingIsTimeout ==
  (Responded /\ response.success /\ queries = maxAttempts
     /\ pendings = maxAttempts)
  => response.status.status = "timeout"

\* C2: a status reply received without error is classified by first match:
\* status '1' is Verified; else result 'Pending in queue' is Pending and the
\* loop goes on; else result 'Already Verified' is AlreadyVerified and ends
\* the loop; every other reply is Failed, ends the loop and carries the
\* reply's result text.
C2_ClassificationOrder ==
  [][ (pc = "query" /\ pc' # "query" /\ statusResult' # Null) =>
        LET r == statusResult'
        IN  /\ r.status = "1" =>
                 /\ finalStatus'.status = "verified"
                 /\ pc' = "afterloop"
            /\ (r.status # "1" /\ r.result = "Pending in queue") =>
                 /\ finalStatus'.status = "pending"
                 /\ pc' = "wait"
            /\ (r.status # "1" /\ r.result = "Already Verified") =>
                 /\ finalStatus'.status = "already_verified"
                 /\ pc' = "afterloop"
            /\ (r.status # "1"
                  /\ r.result \notin {"Pending in queue", "Already Verified"})
                 => /\ finalStatus'.status = "failed"
                    /\ finalStatus'.result = r.result
                    /\ pc' = "afterloop"
    ]_vars

\* a reply with status '1' and result 'Pending in queue' was read as Verified
C2_Witness ==
  /\ pc = "afterloop"
  /\ statusResult = Obj("1", "Pending in queue")
  /\ finalStatus.status = "verified"

\* C3: if the k-th status query is the first with a terminal observation,
\* the session ends in that state after exactly k queries and k - 1 waits:
\* no query and no wait follows it.
C3_TerminalObservationEndsSession ==
  termAt # 0 =>
    /\ queries = termAt
    /\ waits = termAt - 1
    /\ pc \in {"afterloop", "finally", "done"}
    /\ finalStatus.status = termKind
    /\ Responded => (response.success /\ response.status.status = termKind)

\* three 'Pending in queue' answers, then status '1': Verified after 4 queries
C3_Witness ==
  /\ Responded
  /\ termAt = 4
  /\ pendings = 3
  /\ queries = 4
  /\ response.status.status = "verified"

\* C4: a status query that errors never ends the session by itself: the
\* loop waits and goes to the next attempt, nothing is reported, and the
\* failed query costs exactly one attempt, as a Pending observation does.
C4_QueryErrorIsNonTerminal ==
  /\ [][ (pc = "query" /\ pc' # "query" /\ statusResult' = Null) =>
           /\ pc' = "wait"
           /\ finalStatus' = finalStatus
           /\ attempts' = attempts
           /\ response' = response ]_vars
  /\ [][ (pc = "wait" /\ pc' # "wait") =>
           (pc' = "loop" /\ attempts' = attempts + 1) ]_vars
  /\ [](pc = "loop" => attempts = pendings + errors)

\* after a query that errored, the next query has been issued
C4_Witness ==
  /\ pc = "query"
  /\ statusResult = Null
  /\ errors = 1
  /\ attempts = 1
  /\ queries = 2

\* C5: every request returns a response to its caller, after at most 30
\* status queries, whatever the service answers.
C5_RequestReturns ==
  /\ <>(Responded /\ response.http # 0)
  /\ [](queries <= maxAttempts)

\* a request answered after the whole budget was used
C5_Witness ==
  /\ Responded
  /\ response.http = 200
  /\ queries = maxAttempts
  /\ errors > 0
  /\ pendings > 0

\* C6: after a successful submission the reported status is one of
\* verified, already_verified, pending, failed, timeout and never null; a
\* request whose submission did not succeed (bad body, storage error,
\* rejected or failed submission) ends with an error response.
C6_ClosedOutcomeSet ==
  Responded =>
    IF verificationResult.status = "1"
      THEN /\ response.success
           /\ response.http = 200
           /\ response.status.status \in ClosedOutcomes
      ELSE /\ ~response.success
           /\ response.http \in {400, 404, 500}
           /\ response.message # ""

\* all 30 queries errored and the request reports 'timeout'
C6_Witness ==
  /\ Responded
  /\ errors = maxAttempts
  /\ response.status.status = "timeout"

\* C7 (as stated): a submission that does not succeed ends the request with
\* an error outcome that carries the service's result text unchanged whenever
\* the body was JSON, with no status query and no second submission.
C7_RejectionReasonUnchanged ==
  (Responded /\ submissions = 1 /\ verificationResult # Null
     /\ verificationResult.status # "1")
  => /\ ~response.success
     /\ response.error = verificationResult.result
     /\ queries = 0

\* C7 (amended): a submission that does not succeed ends the request with an
\* error response, no status query and at most one submission; a JSON object
\* whose status is not '1' gives a 400 whose error is the result text when
\* that text is non-empty and 'Unknown error' when it is empty; a non-JSON
\* body, a failed fetch or a JSON null body gives a 500.
C7_FailedSubmissionEndsRequest ==
  /\ submissions <= 1
  /\ (pc \in {"finally", "done"} /\ submissions = 1
        /\ verificationResult.status # "1")
     => /\ ~response.success
        /\ queries = 0
        /\ IF verificationResult # Null
             THEN /\ response.http = 400
                  /\ response.error =
                       (IF verificationResult.result # ""
                          THEN verificationResult.result
                          ELSE "Unknown error")
             ELSE response.http = 500

\* the service answered {"status":"0","result":"already verified"}
C7_Witness ==
  /\ Responded
  /\ verificationResult = Obj("0", "already verified")
  /\ response.error = "already verified"
  /\ response.http = 400
  /\ queries = 0

\* C8 (as stated): a successful submission returns the tracking token to the
\* caller without any status query having been issued.
C8_TokenReturnedBeforeAnyQuery ==
  (Responded /\ response.success) => queries = 0

\* C8 (amended): submitVerification itself issues no status query (none has
\* been issued when it returns), but the same request then polls: status
\* queries are issued only after an accepted submission, with its token, and
\* the caller receives the token only after at least one status query.
C8_RequestPollsBeforeReturningToken ==
  /\ [](pc \in {"body", "connect", "find", "submit"} => queries = 0)
  /\ [][queries' # queries =>
          /\ verificationResult.status = "1"
          /\ guid = verificationResult.result
          /\ queries' = queries + 1]_vars
  /\ []((Responded /\ response.success) =>
          /\ queries >= 1
          /\ response.guid = verificationResult.result)

\* the token came back after one status query
C8_Witness ==
  /\ Responded
  /\ response.success
  /\ response.guid = "guid-1"
  /\ queries = 1

\* C9: once the caller's context is torn down, the poll loop issues no
\* further status query.
C9_NoQueryAfterTeardown ==
  [][~callerPresent => queries' = queries]_vars

\* C10: while a request is issuing a status query or waiting between two,
\* the storage connection has already been closed.
C10_ConnectionClosedWhilePolling ==
  pc \in {"query", "wait"} => client = "closed"


\* a GET that carried the token of a session whose terminal state was
\* observed and reported by the POST request
RequeriedAfterTerminal ==
  /\ gets > 0
  /\ getResponse.http # 400
  /\ termAt # 0

\* C11 (as stated): after a terminal state was reported for a token, every
\* later status request for that token reports the same terminal outcome.
C11_RequeryReportsSameOutcome ==
  RequeriedAfterTerminal =>
    /\ getResponse.success
    /\ ObservedKind(getResponse.status) = termKind

\* C11 (amended): GET keeps no session state and changes none; when its
\* query to the service succeeds it passes the answer through unchanged, so
\* it reports the same terminal outcome whenever the service repeats its
\* answer, and when its query errors it answers 500 with no outcome at all.
C11_RequeryPassesThroughOrFails ==
  /\ [](RequeriedAfterTerminal =>
          IF getReply.kind = "json"
            THEN /\ getResponse.http = 200
                 /\ getResponse.success
                 /\ getResponse.status = getReply
                 /\ ObservedKind(getResponse.status) = termKind
            ELSE /\ getResponse.http = 500
                 /\ ~getResponse.success
                 /\ getResponse.status = Null)
  /\ [][gets' # gets => UNCHANGED postVars]_vars

\* the service repeated 'Already Verified' and GET passed it on
C11_Witness ==
  /\ RequeriedAfterTerminal
  /\ termKind = "already_verified"
  /\ response.status.status = "already_verified"
  /\ getResponse.success
  /\ getResponse.status.result = "Already Verified"


\* ------------------------------------------------------------------------
\* Properties of the type coercer

IsBoolType == cvType \in {T_bool, T_boolean}

\* value equals "true" when letter case is ignored
IsTrueIgnoringCase(str) ==
  /\ Len(str) = 4
  /\ str[1] \in {"t", "T"}
  /\ str[2] \in {"r", "R"}
  /\ str[3] \in {"u", "U"}
  /\ str[4] \in {"e", "E"}

\* C16: for every type name the empty text coerces to the empty sentinel "",
\* never to a type default (false for bool, 0 for integers), in both pages.
C16_EmptyCoercesToSentinel ==
  (cvPc = "done" /\ cvValue = << >>) =>
    /\ cvTx = EmptySentinel
    /\ cvDeploy = EmptySentinel
    /\ cvTx # JsBool(FALSE) /\ cvDeploy # JsBool(FALSE)
    /\ cvTx # JsBigInt(0) /\ cvDeploy # JsBigInt(0)

\* the empty text was coerced for a bool parameter
C16_Witness ==
  /\ cvPc = "done"
  /\ cvValue = << >>
  /\ cvType = T_bool
  /\ cvTx = EmptySentinel

\* C17: for bool / boolean and a non-empty text the result is the boolean
\* true exactly when the text is "true" in any letter case, and the boolean
\* false for every other text; nothing is raised.
C17_BoolIsCaseInsensitiveTrue ==
  (cvPc = "done" /\ IsBoolType /\ cvValue # << >>) =>
    /\ cvTx = JsBool(IsTrueIgnoringCase(cvValue))
    /\ cvDeploy = JsBool(IsTrueIgnoringCase(cvValue))

\* "TRUE" was coerced to true
C17_Witness ==
  /\ cvPc = "done"
  /\ cvType = T_boolean
  /\ cvValue = << "T", "R", "U", "E" >>
  /\ cvTx = JsBool(TRUE)
  /\ cvDeploy = JsBool(TRUE)

\* C18 (as stated): for a non-empty text and every type other than bool /
\* boolean the coerced value is the text itself, in both pages.
C18_NonBoolIsVerbatim ==
  (cvPc = "done" /\ ~IsBoolType /\ cvValue # << >>) =>
    /\ cvTx = JsString(cvValue)
    /\ cvDeploy = JsString(cvValue)

\* C18 (amended): convertParamValue of the transaction page returns the text
\* itself for every type other than bool / boolean; the deploy page does the
\* same except for the integer family, where a text that BigInt accepts
\* becomes that integer and a text it rejects is returned unchanged.
C18_VerbatimExceptDeployIntegers ==
  (cvPc = "done" /\ ~IsBoolType /\ cvValue # << >>) =>
    /\ cvTx = JsString(cvValue)
    /\ cvDeploy =
         (IF Includes(cvType, T_int) /\ BigInt(cvValue).ok
            THEN JsBigInt(BigInt(cvValue).n)
            ELSE JsString(cvValue))

\* "1000" for uint256: the text in the transaction page, 1000n when deploying
C18_Witness ==
  /\ cvPc = "done"
  /\ cvType = T_uint256
  /\ cvValue = << "1", "0", "0", "0" >>
  /\ cvTx = JsString(<< "1", "0", "0", "0" >>)
  /\ cvDeploy = JsBigInt(1000)

\* ------------------------------------------------------------------------
\* Properties of the call builder (TxSpec)

\* the number of values supplied for the parameters of function f
SuppliedCount(f) ==
  Cardinality({ k \in DOMAIN paramValues : k[1] = f })

\* the batch is in the wallet's hands and paramValues is as it was built from
BatchHandedOver == txPc \in {"sending", "waiting"}

\* C12 (as stated): a batch is built and handed to the wallet only if every
\* fragment has as many supplied values as declared parameters; a missing
\* value is never padded.
C12_BuiltOnlyWithEveryValueSupplied ==
  BatchHandedOver =>
    \A f \in 0..(Len(functions) - 1) :
      SuppliedCount(f) = Len(functions[f + 1].params)

\* C13: in one execution sendCalls is invoked at most once and only when a
\* descriptor has been built for every function; an execution that stopped
\* while building has sent nothing and is 'failed'.
C13_AllOrNothing ==
  /\ [](sends <= 1)
  /\ [][sends' > sends =>
          /\ Len(calls) = Len(functions)
          /\ sentCalls' = calls]_vars
  /\ []((txPc = "idle" /\ isExecuting = FALSE
           /\ Len(calls) < Len(functions))
          => (sends = 0 /\ sentCalls = << >>))
  /\ [][(txPc = "build" /\ txPc' = "idle") =>
          (executionStatus' = "failed" /\ sends' = 0
             /\ isExecuting' = FALSE)]_vars

\* the second function of two could not be encoded: one descriptor was
\* built, nothing was sent, the execution failed
C13_Witness ==
  /\ txPc = "idle"
  /\ Len(functions) = 2
  /\ Len(calls) = 1
  /\ executionStatus = "failed"
  /\ sends = 0

\* C14: the batch handed to the wallet has one descriptor per function, and
\* the i-th descriptor has the i-th function's contract address, the calldata
\* of the i-th function with its own arguments, and value 0.
C14_OrderPreserved ==
  BatchHandedOver =>
    /\ Len(sentCalls) = Len(functions)
    /\ \A i \in 1..Len(functions) :
         /\ sentCalls[i].to = functions[i].contract_address
         /\ sentCalls[i].data.selector =
              << functions[i].name, generateFunctionAbi(functions[i]).inputs >>
         /\ sentCalls[i].data =
              encodeFunctionData(generateFunctionAbi(functions[i]),
                                 functions[i].name, ArgsOf(i - 1)).data
         /\ sentCalls[i].value = 0

\* mint(address,uint256) then setName(string) were handed over in that order
C14_Witness ==
  /\ txPc = "sending"
  /\ functions = << F_mint, F_setName >>
  /\ Len(sentCalls) = 2
  /\ sentCalls[1].to = "0xToken"
  /\ sentCalls[1].data.words = << JsString(A_valid), JsBigInt(1000) >>
  /\ sentCalls[2].to = "0xRegistry"

\* C15: 'success' is set only from 'pending' after sendCalls resolved and
\* waitForCallsStatus returned receipts; no receipts, or a rejection of the
\* send or of the wait, gives 'failed'; 'success' is not followed by 'failed'
\* in the same execution.
C15_ClassifiedFromWalletOutcome ==
  /\ [](executionStatus = "success" =>
          (sawPending /\ sends = 1 /\ receipts = "some"))
  /\ [][(executionStatus' = "success" /\ executionStatus # "success") =>
          (txPc = "waiting" /\ executionStatus = "pending")]_vars
  /\ []((txPc = "idle" /\ receipts \in {"empty", "rejected"}) =>
          executionStatus = "failed")
  /\ [][(txPc = "sending" /\ txPc' = "idle") =>
          executionStatus' = "failed"]_vars
  /\ [][executionStatus = "success" =>
          executionStatus' \in {"success", ""}]_vars

\* an execution that went through 'pending' and ended with receipts
C15_Witness ==
  /\ executionStatus = "success"
  /\ sawPending
  /\ receipts = "some"
  /\ txPc = "idle"

\* ------------------------------------------------------------------------
\* Properties of the constructor-argument encoder (DeploySpec)

\* some value of finalArgs is the empty sentinel
SomeValueNotSupplied ==
  \E i \in DOMAIN finalArgs : finalArgs[i] = EmptySentinel

\* C19 (as stated): encodedArgs is the empty text whenever the constructor
\* has no parameters or some value of finalArgs is the empty sentinel.
C19_EmptyWhileAnyValueMissing ==
  (Len(constructorParams) = 0 \/ SomeValueNotSupplied) =>
    encodedArgs = << >>

\* C20: for a constructor without parameters encodedArgs is the empty text
\* whatever finalArgs holds, and the constructorArguments field built from
\* the verification request is the empty text.
C20_NoParamsGivesEmptyPayload ==
  Len(constructorParams) = 0 =>
    /\ encodedArgs = << >>
    /\ dpPc \in {"requested", "submitted"} => verifyBody.text = << >>
    /\ dpPc = "submitted" => constructorArguments = << >>

\* no parameters, [7] entered as JSON, and the submission was built
C20_Witness ==
  /\ Len(constructorParams) = 0
  /\ ~useDynamicArgs
  /\ finalArgs = << JsNumber(7) >>
  /\ dpPc = "submitted"
  /\ constructorArguments = << >>

\* encodeAbiParameters is reached with the present inputs and throws
EncodingFailed ==
  /\ Len(constructorParams) # 0
  /\ Len(finalArgs) # 0
  /\ ~encodeAbiParameters(constructorParams, finalArgs).ok

\* C21 (as stated): no verification request is sent while the encoding of
\* the constructor arguments has failed.
C21_NoRequestAfterEncodingFailure ==
  dpPc \in {"requested", "submitted"} => ~EncodingFailed

\* C22 (as stated): deployContract is called only when finalArgs has as many entries as
\* the constructor has parameters, and it receives finalArgs; with another
\* count handleDeploy calls nothing and its error names both counts.
C22_DeployOnlyWithMatchingCount ==
  /\ [](isDeploying => Len(deployArgs.args) = Len(constructorParams))
  /\ [][deploys' # deploys =>
          /\ Len(finalArgs) = Len(constructorParams)
          /\ deployArgs' = [called |-> TRUE, args |-> finalArgs]]_vars
  /\ [][(~isDeploying /\ Len(finalArgs) # Len(constructorParams)) =>
          /\ deploys' = deploys
          /\ ~isDeploying'
          /\ dpError' # dpError =>
               dpError' = CountError(Len(constructorParams),
                                     Len(finalArgs))]_vars

\* the encoding encodedArgs gives for the arguments args
EncodingOf(args) ==
  IF Len(constructorParams) = 0 \/ Len(args) = 0
    THEN << >>
  ELSE IF encodeAbiParameters(constructorParams, args).ok
    THEN Slice(encodeAbiParameters(constructorParams, args).hex, 2)
  ELSE << >>

\* C28 (as stated): the body of a verification request carries the encoding
\* of the arguments that were passed to the deployment of the address.
C28_VerifiesDeployedArguments ==
  [][(dpPc = "form" /\ dpPc' = "requested") =>
       verifyBody'.text = EncodingOf(deployArgs.args)]_vars

\* an outcome of a verification is on the page
OutcomeShown ==
  \/ verificationStatus # ""
  \/ verificationGuid # ""

\* C29 (as stated): an outcome of a verification is shown next to an address
\* only if it is the outcome of the verification of that address.
C29_OutcomeBelongsToAddress ==
  (contractAddress # "" /\ OutcomeShown) => verifyAddress = contractAddress

\* ------------------------------------------------------------------------
\* Properties of the normalisation of artifacts (NormSpec)

\* C23 (as stated): for an artifact whose bytecode is an object or a string,
\* the normalised bytecode is a string, and so is the normalised
\* deployedBytecode when there is one.
C23_NormalizedFieldsAreStrings ==
  (nzPc = "done" /\ rawContractData.bytecode.kind \in {"string", "object"})
    => /\ normalizedData.bytecode.kind = "string"
       /\ normalizedData.deployedBytecode.kind \in {"string", "absent"}

\* ------------------------------------------------------------------------
\* the classification of the most recent status query that did not fail, as
\* an observer of the service counts it: a terminal answer ends the loop, so
\* it is the last query; otherwise any answer that was not a failure was
\* 'Pending in queue'
LastObserved ==
  IF termAt # 0 THEN termKind
  ELSE IF pendings > 0 THEN "pending"
  ELSE "none"

PollCompleted == Responded /\ response.message = "Verification process completed"

\* C24: at the end of the poll loop the reported status is the
\* classification of the most recent status query that did not fail: a
\* failed query leaves finalStatus as it was, a terminal answer is the last
\* query made, and 'timeout' is reported exactly when all maxAttempts queries
\* failed, so that nothing was ever observed
C24_ReportsLastObservation ==
  /\ [](termAt # 0 => queries = termAt)
  /\ [](PollCompleted =>
          /\ LastObserved # "none"
                => response.status.status = LastObserved
          /\ response.status.status = "timeout"
                <=> (LastObserved = "none" /\ errors = maxAttempts
                       /\ queries = maxAttempts))
  /\ [][(pc = "query" /\ pc' # "query" /\ statusResult' = Null)
          => finalStatus' = finalStatus]_vars

\* a poll that saw 'Pending in queue', then failing queries up to the last
\* attempt, and reported "pending"
C24_Witness ==
  /\ PollCompleted
  /\ pendings > 0
  /\ errors > 0
  /\ statusResult = Null
  /\ queries = maxAttempts
  /\ response.status.status = "pending"

\* ------------------------------------------------------------------------
\* the request carried both contractId and contractAddress
BodyComplete ==
  /\ reqBody.ok
  /\ Truthy(reqBody.contractId)
  /\ Truthy(reqBody.contractAddress)

\* the three checks that precede the submission, the last one with the
\* record's source text given as the parameter hasSource
ChecksPrecedeSubmission(hasSource) ==
  /\ submissions > 0 => (BodyComplete /\ lookup = "doc" /\ hasSource)
  /\ (pc \in {"connect", "find"} \/ lookup # "notAsked") => BodyComplete
  /\ (Responded /\ reqBody.ok /\ ~BodyComplete)
       => (response.http = 400 /\ submissions = 0 /\ lookup = "notAsked")
  /\ (Responded /\ lookup = "none")
       => (response.http = 404 /\ submissions = 0)
  /\ (Responded /\ lookup = "doc" /\ ~hasSource)
       => (response.http = 400 /\ submissions = 0)

\* C26 (as stated): the verification service receives a submission only if
\* the request carried both fields, the record was found and the record has
\* source text; a failed check ends the request with 400, 404 or 400 and no
\* call of the service, and the field check precedes the storage lookup.
C26_SubmissionOnlyAfterChecks ==
  ChecksPrecedeSubmission(Truthy(contract.source))

\* the same with the third check as the handler makes it: the record has a
\* source or a sourcePath
C26_ChecksAsCoded ==
  ChecksPrecedeSubmission(Truthy(contract.source)
                            \/ Truthy(contract.sourcePath))

\* ------------------------------------------------------------------------
\* request r sends an operation to the storage in this step: the first
\* attempt once new ObjectId(id) has returned, or the attempt by name
SendsOperation(r) ==
  \/ rq[r].pc = "first" /\ rq'[r].pc # "first" /\ ObjectIdValid(rq[r].id)
  \/ rq[r].pc = "byName" /\ rq'[r].pc # "byName"

\* C25 (as stated): with two or more requests in flight on a route module
\* that shares one client, every storage operation of a request runs on an
\* open connection.
C25_OperationsOnOpenConnection ==
  [][\A r \in DOMAIN rq : SendsOperation(r) => routeClient = "open"]_vars

\* what GET /transactions/{id} answers for id in a state of the database
GetFinds(st, id) ==
  \/ ObjectIdValid(id) /\ Matching(st[CollectionOf(routeName, "GET")], id, FALSE) # {}
  \/ ~ObjectIdValid(id) /\ Matching(st[CollectionOf(routeName, "GET")], id, TRUE) # {}

\* request r is a DELETE whose operation is answered by the storage in this
\* step
DeleteAnswered(r) ==
  /\ rq[r].method = "DELETE"
  /\ SendsOperation(r)
  /\ routeClient = "open"
  /\ (rq[r].pc = "byName") = ~ObjectIdValid(rq[r].id)

\* C30 (as stated): on the transactions route a record that GET returns is
\* deleted by DELETE with the same id, and after DELETE has reported success
\* for an id GET with that id reports not found.
C30_GetAndDeleteAgree ==
  [][\A r \in DOMAIN rq :
       (routeName = "transactions" /\ DeleteAnswered(r))
         => /\ GetFinds(store, rq[r].id) => rq'[r].http = 200
            /\ rq'[r].http = 200 => ~GetFinds(store', rq[r].id)]_vars

\* ------------------------------------------------------------------------
\* a deployment attempt has failed and none is under way
DeployAttemptFailed ==
  /\ dpPc # "off"
  /\ dpError # NoError
  /\ ~isDeploying
  /\ deploys < MaxDeploys

\* a batch execution attempt has failed and none is under way
ExecutionAttemptFailed ==
  /\ txPc = "idle"
  /\ (executionStatus = "failed" \/ txError # "")

\* C27 (as stated): after a failed deployment or batch execution attempt the
\* form stays reachable, i.e. from every state with a failed attempt a state
\* in which the deploy / execute action is enabled is reachable. Stated by
\* what it requires of each such state: the action is enabled there, or the
\* page can take some step towards a state where it is.
C27_FormStaysReachable ==
  /\ DeployAttemptFailed => (ENABLED HandleDeploy \/ ENABLED DeployNext)
  /\ ExecutionAttemptFailed => (ENABLED StartExecute \/ ENABLED TxNext)

====
